---- MODULE Spec2Model ----
(***************************************************************************)
(* Authentication and authorisation layer of the Bartending back end:      *)
(* the users table, the password-reset token lifecycle, the JWT            *)
(* middleware, the role gate and registration.                             *)
(*                                                                         *)
(* Strings are sequences of one-character strings.  Time is the wall       *)
(* clock in milliseconds (Date.now() and the database's NOW() are taken    *)
(* to be the same clock).  Every `await pool.query(...)` is one atomic     *)
(* database step; the synchronous code after it runs in the same step.     *)
(***************************************************************************)
EXTENDS Integers, Sequences, FiniteSets, TLC

VARIABLES
    users,      \* the users table: id -> row
    nextId,     \* the SERIAL sequence behind users.id
    now,        \* wall clock, ms
    slots,      \* account-service requests in flight, one per connection slot
    resp,       \* the HTTP answer sent by the last step, if it sent one
    nextToken,  \* crypto.randomBytes: the next fresh reset secret
    latest,     \* history: user id -> [token, at, over]: the reset secret stored
                \* last for that user, the Date.now() it was issued at, and the
                \* secret it overwrote (0 when the column was NULL)
    okCount,    \* history: reset secret -> number of 200 answers of reset-password
    env,        \* process.env: which required settings are present
    phase,      \* server lifecycle: "boot", "listening", "exited"
    jwts,       \* history: every bearer token generateToken has signed
    mw,         \* outcome of the last middleware run
    reg,        \* outcome of the last POST /auth/register
    store,      \* the rate limiters' in-memory stores and the requests past them
    ingredients, \* the available_ingredients table and the bulk updates in flight
    tables      \* the orders and cocktails tables

vars == <<users, nextId, now, slots, resp, nextToken, latest, okCount,
          env, phase, jwts, mw, reg, store, ingredients, tables>>

(***************************************************************************)
(* Bounds of the model                                                     *)
(***************************************************************************)
MaxTicks == 1       \* clock ticks of TimeUnitMs explored
MaxTokens == 2      \* reset secrets crypto.randomBytes hands out
MaxJwtTicks == 2    \* clock ticks of JwtTickMs explored
MaxUserId == 4      \* ids POST /auth/register hands out
MaxJwts == 2        \* bearer tokens generateToken signs
MaxWindows == 1     \* clock ticks of AuthWindowMs explored
MaxHits == 6        \* largest count the auth limiter's store reaches for a client
MaxInFlight == 2    \* requests past the auth limiter whose response is not finished
MaxCalls == 101     \* requests of one client outside /auth within one minute
MaxOps == 11        \* sensitive requests of one client within one hour
MaxIngredientId == 3 \* ids POST /ingredients hands out
MaxOrderId == 2     \* ids POST /orders hands out
MaxCocktails == 2   \* rows of the cocktails table

TimeUnitMs == 60 * 60 * 1000    \* granularity of the clock in the reset flows
Slots == {1, 2}                 \* concurrent account-service requests
JwtTickMs == 84 * 60 * 60 * 1000 \* granularity of the clock in the token flows

(***************************************************************************)
(* Strings                                                                 *)
(***************************************************************************)
UpperCase == {"A", "B", "C", "O", "X"}
LowerCase == {"a", "b", "c", "d", "e", "g", "h", "i", "l", "m", "n", "o",
              "p", "r", "s", "t", "w", "x"}
Digits == {"1", "2"}

\* SQL LOWER() on one character
LowerChar(c) ==
    CASE c = "A" -> "a"
      [] c = "B" -> "b"
      [] c = "C" -> "c"
      [] c = "O" -> "o"
      [] c = "X" -> "x"
      [] OTHER -> c

\* SQL LOWER()
Lower(s) == [i \in 1..Len(s) |-> LowerChar(s[i])]

\* JavaScript truthiness of a string-or-undefined body field: undefined and ''
\* are both falsy.  A missing field is carried as the empty sequence.
Falsy(s) == s = <<>>

(***************************************************************************)
(* Hashes                                                                  *)
(***************************************************************************)
\* bcrypt.hash(password, BCRYPT_ROUNDS): a salted digest
BcryptHash(password, salt) == [salt |-> salt, pw |-> password]

\* bcrypt.compare(password, digest)
BcryptCompare(password, digest) == digest.pw = password

\* crypto.createHash('sha256').update(token).digest('hex'): deterministic and
\* collision free
Sha256(token) == <<"sha256", token>>

\* SQL NULL and a present column value
NULL == <<>>
Val(x) == <<x>>

\* A salt no stored digest carries (bcrypt draws 128 random bits per call)
FreshSalt ==
    CHOOSE s \in 1..(Cardinality(DOMAIN users) + 1) :
        \A u \in DOMAIN users : users[u].password_hash.salt # s

(***************************************************************************)
(* Program constants                                                       *)
(***************************************************************************)
ResetTokenTtlMs == 60 * 60 * 1000
MinPasswordLength == 8
MinUsernameLength == 3

(***************************************************************************)
(* Inputs                                                                  *)
(***************************************************************************)
PwShort == <<"s", "h", "o", "r", "t", "1", "2">>
PwLonger == <<"l", "o", "n", "g", "e", "r", "1", "2">>
PwOther == <<"p", "a", "s", "s", "w", "o", "r", "d", "1">>
PwInit == <<"i", "n", "i", "t", "p", "a", "s", "s">>

EmailBob == <<"b", "@", "x", ".", "i", "o">>
EmailAl == <<"a", "l", "@", "x", ".", "i", "o">>
EmailAlUpper == <<"A", "l", "@", "X", ".", "i", "o">>
EmailNobody == <<"n", "o", "@", "x", ".", "i", "o">>

ResetPasswords == {<<>>, PwShort, PwLonger, PwOther}
ResetTokens == 0..MaxTokens          \* 0: the token field is missing or ''
ForgotEmails == {<<>>, EmailAlUpper, EmailNobody}

(***************************************************************************)
(* The users table                                                         *)
(***************************************************************************)
UserRow(id, username, email, hash, role) ==
    [id |-> id, username |-> username, email |-> email, password_hash |-> hash,
     role |-> role, reset_token |-> NULL, reset_token_expiry |-> NULL]

SeedUsers ==
    (1 :> UserRow(1, <<"b", "o", "b">>, EmailBob, BcryptHash(PwInit, 1), "admin"))
    @@ (2 :> UserRow(2, <<"a", "l">>, EmailAl, BcryptHash(PwInit, 2), "user"))

IdleSlot ==
    [op |-> "idle", pc |-> "idle", token |-> 0, password |-> <<>>, uid |-> 0,
     newToken |-> 0, at |-> 0, expiry |-> 0, current |-> <<>>, email |-> <<>>]

\* A new request takes the first idle slot (which one it takes is immaterial)
Free(s) ==
    /\ slots[s].pc = "idle"
    /\ \A r \in Slots : r < s => slots[r].pc # "idle"

NoBody == [error |-> "none"]
NoReq == [currentPassword |-> <<>>, newPassword |-> <<>>]
NoResp == [op |-> "none", step |-> "none", token |-> 0, status |-> 0, body |-> NoBody,
           req |-> NoReq]

\* res.status(status).json(...): the request on slot s is answered by the step
\* `step` of handler `op`, and its slot is idle again.  Status 500 is sent by
\* the handlers' catch blocks only.
Answer(s, op, step, token, status) ==
    /\ slots' = [slots EXCEPT ![s] = IdleSlot]
    /\ resp' = [op |-> op, step |-> step, token |-> token, status |-> status,
                body |-> NoBody, req |-> NoReq]

\* res.status(status).json(body) to the forgot-password request for `email`
ForgotAnswer(s, step, status, email, body) ==
    /\ slots' = [slots EXCEPT ![s] = IdleSlot]
    /\ resp' = [NoResp EXCEPT !.op = "forgot", !.step = step, !.status = status,
                              !.body = body, !.req = [email |-> email]]

\* A step that sends no answer
Silent == resp' = NoResp

(***************************************************************************)
(* POST /auth/forgot-password                                              *)
(***************************************************************************)
\* SELECT id, username, email FROM users WHERE LOWER(email) = LOWER($1)
FindByEmail(email) ==
    {u \in DOMAIN users : Lower(users[u].email) = Lower(email)}

\* Variant: the token columns are written only when the row holds no token
StoreResetToken_IfNone(tokenHash, expiry, id) ==
    [u \in DOMAIN users |->
        IF u = id /\ users[u].reset_token = NULL
        THEN [users[u] EXCEPT !.reset_token = Val(tokenHash),
                              !.reset_token_expiry = Val(expiry)]
        ELSE users[u]]

\* UPDATE users SET reset_token = $1, reset_token_expiry = $2 WHERE id = $3
StoreResetToken(tokenHash, expiry, id) ==
    [u \in DOMAIN users |->
        IF u = id
        THEN [users[u] EXCEPT !.reset_token = Val(tokenHash),
                              !.reset_token_expiry = Val(expiry)]
        ELSE users[u]]

\* { message: 'Si un compte existe avec cet email, ...' }
GenericMessage ==
    [message |-> "Si un compte existe avec cet email, un lien de reinitialisation a ete envoye."]

\* The body of the catch block
ForgotFailed == [error |-> "Erreur lors de l'envoi de l'email"]

\* Validation, the SELECT, and the synchronous code up to the UPDATE being sent:
\* the secret is drawn and its expiry computed from Date.now() here.
ForgotPasswordLookup(s, email, dbOk) ==
    /\ phase = "listening"
    /\ Free(s)
    /\ UNCHANGED <<users, nextId, now, latest, okCount, env, phase, jwts, mw, reg, store, ingredients, tables>>
    /\ IF Falsy(email)
       THEN ForgotAnswer(s, "lookup", 400, email, [error |-> "Email requis"])
            /\ UNCHANGED nextToken
       ELSE IF ~dbOk
       THEN ForgotAnswer(s, "lookup", 500, email, ForgotFailed) /\ UNCHANGED nextToken
       ELSE IF FindByEmail(email) = {}
       THEN ForgotAnswer(s, "lookup", 200, email, GenericMessage) /\ UNCHANGED nextToken
       ELSE /\ nextToken <= MaxTokens
            /\ Silent
            /\ \E u \in FindByEmail(email) :
                 slots' = [slots EXCEPT ![s] =
                             [IdleSlot EXCEPT !.op = "forgot", !.pc = "update",
                                              !.uid = u, !.newToken = nextToken,
                                              !.at = now,
                                              !.expiry = now + ResetTokenTtlMs,
                                              !.email = email]]
            /\ nextToken' = nextToken + 1

\* History only: the secret whose hash row id holds, 0 for none
StoredSecret(id) ==
    IF id \in DOMAIN users /\ users[id].reset_token # NULL
    THEN users[id].reset_token[1][2]
    ELSE 0

\* The UPDATE, then await transporter.sendMail(...) and the generic answer; a
\* rejected query or send lands in the catch block.  The send touches no state
\* of the service, so it shares the UPDATE's step.
ForgotPasswordUpdate(s, dbOk, smtpOk) ==
    /\ slots[s].op = "forgot" /\ slots[s].pc = "update"
    /\ UNCHANGED <<nextId, now, nextToken, okCount, env, phase, jwts, mw, reg, store, ingredients, tables>>
    /\ IF ~dbOk
       THEN /\ ForgotAnswer(s, "update", 500, slots[s].email, ForgotFailed)
            /\ UNCHANGED <<users, latest>>
       ELSE /\ users' = StoreResetToken(Sha256(slots[s].newToken), slots[s].expiry,
                                        slots[s].uid)
            /\ latest' = (slots[s].uid :>
                            [token |-> slots[s].newToken, at |-> slots[s].at,
                             over |-> StoredSecret(slots[s].uid)]) @@ latest
            /\ IF smtpOk
               THEN ForgotAnswer(s, "update", 200, slots[s].email, GenericMessage)
               ELSE ForgotAnswer(s, "update", 500, slots[s].email, ForgotFailed)

(***************************************************************************)
(* POST /auth/reset-password                                               *)
(***************************************************************************)
\* Variant: reset_token_expiry >= NOW()
FindByResetToken_AtExpiry(tokenHash) ==
    {u \in DOMAIN users :
        /\ users[u].reset_token = Val(tokenHash)
        /\ users[u].reset_token_expiry # NULL
        /\ users[u].reset_token_expiry[1] >= now}

\* SELECT id, username FROM users
\*  WHERE reset_token = $1 AND reset_token_expiry > NOW()
FindByResetToken(tokenHash) ==
    {u \in DOMAIN users :
        /\ users[u].reset_token = Val(tokenHash)
        /\ users[u].reset_token_expiry # NULL
        /\ users[u].reset_token_expiry[1] > now}

\* Variant: the UPDATE sets the password hash only
ApplyReset_KeepsToken(passwordHash, id) ==
    [u \in DOMAIN users |->
        IF u = id THEN [users[u] EXCEPT !.password_hash = passwordHash] ELSE users[u]]

\* Variant: the UPDATE clears the token columns only
ApplyReset_ClearsOnly(passwordHash, id) ==
    [u \in DOMAIN users |->
        IF u = id
        THEN [users[u] EXCEPT !.reset_token = NULL, !.reset_token_expiry = NULL]
        ELSE users[u]]

\* UPDATE users SET password_hash = $1, reset_token = NULL,
\*  reset_token_expiry = NULL WHERE id = $2
ApplyReset(passwordHash, id) ==
    [u \in DOMAIN users |->
        IF u = id
        THEN [users[u] EXCEPT !.password_hash = passwordHash,
                              !.reset_token = NULL,
                              !.reset_token_expiry = NULL]
        ELSE users[u]]

\* Validation and the SELECT
ResetPasswordLookup(s, token, password, dbOk) ==
    /\ phase = "listening"
    /\ Free(s)
    /\ UNCHANGED <<users, nextId, now, nextToken, latest, okCount, env, phase,
                   jwts, mw, reg, store, ingredients, tables>>
    /\ IF token = 0 \/ Falsy(password)
       THEN Answer(s, "reset", "lookup", token, 400)
       ELSE IF Len(password) < MinPasswordLength
       THEN Answer(s, "reset", "lookup", token, 400)
       ELSE IF ~dbOk
       THEN Answer(s, "reset", "lookup", token, 500)
       ELSE IF FindByResetToken(Sha256(token)) = {}
       THEN Answer(s, "reset", "lookup", token, 400)
       ELSE /\ Silent
            /\ \E u \in FindByResetToken(Sha256(token)) :
                 slots' = [slots EXCEPT ![s] =
                             [IdleSlot EXCEPT !.op = "reset", !.pc = "update",
                                              !.token = token, !.password = password,
                                              !.uid = u]]

\* bcrypt.hash, the UPDATE, and the 200 answer
ResetPasswordUpdate(s, dbOk) ==
    /\ slots[s].op = "reset" /\ slots[s].pc = "update"
    /\ UNCHANGED <<nextId, now, nextToken, latest, env, phase, jwts, mw, reg, store, ingredients, tables>>
    /\ IF ~dbOk
       THEN /\ Answer(s, "reset", "update", slots[s].token, 500)
            /\ UNCHANGED <<users, okCount>>
       ELSE /\ users' = ApplyReset(BcryptHash(slots[s].password, FreshSalt),
                                   slots[s].uid)
            /\ okCount' = [okCount EXCEPT ![slots[s].token] = @ + 1]
            /\ Answer(s, "reset", "update", slots[s].token, 200)

(***************************************************************************)
(* Time                                                                    *)
(***************************************************************************)
Tick ==
    /\ now < MaxTicks * TimeUnitMs
    /\ now' = now + TimeUnitMs
    /\ Silent
    /\ UNCHANGED <<users, nextId, slots, nextToken, latest, okCount, env,
                   phase, jwts, mw, reg, store, ingredients, tables>>

(***************************************************************************)
(* Bearer tokens (jsonwebtoken)                                            *)
(***************************************************************************)
\* process.env.JWT_EXPIRES_IN || '7d', in seconds
JwtExpiresInSec == 7 * 24 * 60 * 60

\* The characters of an Authorization header are spaces and words; a word is
\* indivisible text: a scheme name, a compact JWT, or anything else.
Space == [kind |-> "space"]
Word(text) == [kind |-> "word", text |-> text]
Jwt(claims, key) == [kind |-> "jwt", claims |-> claims, key |-> key]

\* A header that is present, and req.headers['authorization'] === undefined
Header(chars) == [present |-> TRUE, chars |-> chars]
NoHeader == [present |-> FALSE, chars |-> <<>>]

\* String.prototype.split(' '): the pieces between the spaces, empty pieces
\* included
RECURSIVE Split(_)
Split(chars) ==
    IF \A i \in 1..Len(chars) : chars[i] # Space
    THEN <<chars>>
    ELSE LET i == CHOOSE j \in 1..Len(chars) :
                     chars[j] = Space /\ \A k \in 1..(j - 1) : chars[k] # Space
         IN <<SubSeq(chars, 1, i - 1)>> \o Split(SubSeq(chars, i + 1, Len(chars)))

\* authHeader && authHeader.split(' ')[1]: the empty sequence stands for every
\* falsy result (undefined header, '' header, no second piece, '' second piece)
BearerToken(header) ==
    IF ~header.present \/ header.chars = <<>> THEN <<>>
    ELSE LET pieces == Split(header.chars)
         IN IF Len(pieces) < 2 THEN <<>> ELSE pieces[2]

\* jwt.sign(payload, JWT_SECRET, { expiresIn }): iat and exp are in seconds
JwtSign(payload, key) ==
    Jwt([id |-> payload.id, username |-> payload.username, email |-> payload.email,
         role |-> payload.role, iat |-> now \div 1000,
         exp |-> (now \div 1000) + JwtExpiresInSec], key)

\* jwt.verify(token, JWT_SECRET): the signature is checked first, then exp
JwtVerify(token, key) ==
    IF Len(token) # 1 \/ token[1].kind # "jwt"
    THEN [error |-> "JsonWebTokenError", claims |-> <<>>]
    ELSE IF token[1].key # key
    THEN [error |-> "JsonWebTokenError", claims |-> <<>>]
    ELSE IF (now \div 1000) >= token[1].claims.exp
    THEN [error |-> "TokenExpiredError", claims |-> <<>>]
    ELSE [error |-> "none", claims |-> <<token[1].claims>>]

\* const JWT_SECRET = process.env.JWT_SECRET
JWT_SECRET == IF env.JWT_SECRET THEN "server-secret" ELSE "undefined"

(***************************************************************************)
(* Middleware.  An outcome tells which response the middleware sent        *)
(* (status 0: none), how often it called next(), and req.user afterwards   *)
(* (<<>>: not set, or null).                                               *)
(***************************************************************************)
Reject(fn, status, error, user) ==
    [fn |-> fn, status |-> status, error |-> error, next |-> 0, user |-> user]

Continue(fn, user) ==
    [fn |-> fn, status |-> 0, error |-> "", next |-> 1, user |-> user]

\* Variant: the two verification failures answer with each other's status
AuthenticateToken_Swapped(header) ==
    LET token == BearerToken(header)
        decoded == JwtVerify(token, JWT_SECRET)
    IN IF token = <<>>
       THEN Reject("authenticateToken", 401, "Authentication required", <<>>)
       ELSE IF JWT_SECRET = "undefined"
       THEN Reject("authenticateToken", 500, "Server configuration error", <<>>)
       ELSE IF decoded.error = "none"
       THEN Continue("authenticateToken", decoded.claims)
       ELSE IF decoded.error = "TokenExpiredError"
       THEN Reject("authenticateToken", 403, "Invalid token", <<>>)
       ELSE Reject("authenticateToken", 401, "Token expired", <<>>)

\* authenticateToken(req, res, next)
AuthenticateToken(header) ==
    LET token == BearerToken(header)
        decoded == JwtVerify(token, JWT_SECRET)
    IN IF token = <<>>
       THEN Reject("authenticateToken", 401, "Authentication required", <<>>)
       ELSE IF JWT_SECRET = "undefined"
       THEN Reject("authenticateToken", 500, "Server configuration error", <<>>)
       ELSE IF decoded.error = "none"
       THEN Continue("authenticateToken", decoded.claims)
       ELSE IF decoded.error = "TokenExpiredError"
       THEN Reject("authenticateToken", 401, "Token expired", <<>>)
       ELSE Reject("authenticateToken", 403, "Invalid token", <<>>)

\* Variant: any attached identity passes
RequireAdmin_AnyIdentity(user) ==
    IF user = <<>>
    THEN Reject("requireAdmin", 401, "Authentication required", user)
    ELSE Continue("requireAdmin", user)

\* Variant: the role is read from the users table, not from req.user
RequireAdmin_StoredRole(user) ==
    IF user = <<>>
    THEN Reject("requireAdmin", 401, "Authentication required", user)
    ELSE IF user[1].id \notin DOMAIN users \/ users[user[1].id].role # "admin"
    THEN Reject("requireAdmin", 403, "Admin access required", user)
    ELSE Continue("requireAdmin", user)

\* requireAdmin(req, res, next); user is req.user on entry
RequireAdmin(user) ==
    IF user = <<>>
    THEN Reject("requireAdmin", 401, "Authentication required", user)
    ELSE IF user[1].role # "admin"
    THEN Reject("requireAdmin", 403, "Admin access required", user)
    ELSE Continue("requireAdmin", user)

\* Variant: a token that fails verification is answered 401
OptionalAuth_Rejecting(header) ==
    LET token == BearerToken(header)
        decoded == JwtVerify(token, JWT_SECRET)
    IN IF token # <<>> /\ JWT_SECRET # "undefined"
       THEN IF decoded.error = "none"
            THEN Continue("optionalAuth", decoded.claims)
            ELSE Reject("optionalAuth", 401, "Authentication required", <<>>)
       ELSE Continue("optionalAuth", <<>>)

\* optionalAuth(req, res, next)
OptionalAuth(header) ==
    LET token == BearerToken(header)
        decoded == JwtVerify(token, JWT_SECRET)
    IN IF token # <<>> /\ JWT_SECRET # "undefined"
       THEN IF decoded.error = "none"
            THEN Continue("optionalAuth", decoded.claims)
            ELSE Continue("optionalAuth", <<>>)
       ELSE Continue("optionalAuth", <<>>)

\* generateToken(user): throws when JWT_SECRET is not defined
GenerateToken(user) ==
    IF JWT_SECRET = "undefined"
    THEN [threw |-> TRUE, token |-> <<>>]
    ELSE [threw |-> FALSE,
          token |-> <<JwtSign([id |-> user.id, username |-> user.username,
                               email |-> user.email, role |-> user.role],
                              JWT_SECRET)>>]

\* What the last request met on its way through the middleware: the route, the
\* Authorization header, req.user on entry of the last middleware that ran,
\* that middleware's outcome, and whether the route handler ran
NoRun == [route |-> "none", header |-> NoHeader, in |-> <<>>,
          out |-> Continue("none", <<>>), handler |-> FALSE]

Ran(route, header, in, out) ==
    [route |-> route, header |-> header, in |-> in, out |-> out,
     handler |-> out.next = 1]

\* Variant: the gate is authenticateToken alone
AdminChain_TokenOnly(route, header) ==
    Ran(route, header, <<>>, AuthenticateToken(header))

\* router.use(authenticateToken); router.use(requireAdmin)
AdminChain(route, header) ==
    LET auth == AuthenticateToken(header)
    IN IF auth.next = 1
       THEN Ran(route, header, auth.user, RequireAdmin(auth.user))
       ELSE Ran(route, header, <<>>, auth)

(***************************************************************************)
(* Requests a client can build                                             *)
(***************************************************************************)
\* A token signed with a key of the client's own, claiming the admin role
ForgedAdmin ==
    Jwt([id |-> 1, username |-> <<"b", "o", "b">>, email |-> EmailBob,
         role |-> "admin", iat |-> 0, exp |-> JwtExpiresInSec * 1000],
        "client-key")

\* Every shape of Authorization header around the words ws
HeadersAround(ws) ==
    {NoHeader, Header(<<>>), Header(<<Word("Bearer")>>),
     Header(<<Word("Bearer"), Space>>)}
    \cup {Header(<<Word("Bearer"), Space, w>>) : w \in ws}
    \cup {Header(<<Word("Token"), Space, w>>) : w \in ws}
    \cup {Header(<<w>>) : w \in ws}
    \cup {Header(<<Word("Bearer"), Space, Space, w>>) : w \in ws}
    \cup {Header(<<Word("Bearer"), Space, w, Space, Word("x")>>) : w \in ws}
    \cup {Header(<<Word("Bearer"), Space, w, Word("x")>>) : w \in ws}

\* The headers a client can send: around a token the server issued, a forged
\* one, or text that is no token
Headers == HeadersAround(jwts \cup {ForgedAdmin, Word("garbage")})

\* Authorization: Bearer <token> with a token the server issued, or none
BearerHeaders == {NoHeader} \cup {Header(<<Word("Bearer"), Space, w>>) : w \in jwts}

(***************************************************************************)
(* Server start-up                                                         *)
(***************************************************************************)
\* Variant: the signing secret is not among the required settings
StartServer_NoSecretCheck(connected) ==
    /\ phase = "boot"
    /\ phase' = IF env.DATABASE_URL /\ connected THEN "listening" ELSE "exited"
    /\ Silent
    /\ UNCHANGED <<users, nextId, now, slots, nextToken, latest, okCount, env, jwts,
                   mw, reg, store, ingredients, tables>>

\* The environment checks of index.js and startServer(): the process exits
\* with code 1 (phase "exited") unless DATABASE_URL and JWT_SECRET are set and
\* testConnection() succeeds; only then app.listen runs.
StartServer(connected) ==
    /\ phase = "boot"
    /\ phase' = IF env.DATABASE_URL /\ env.JWT_SECRET /\ connected
                THEN "listening" ELSE "exited"
    /\ Silent
    /\ UNCHANGED <<users, nextId, now, slots, nextToken, latest, okCount, env, jwts,
                   mw, reg, store, ingredients, tables>>

(***************************************************************************)
(* POST /auth/login                                                        *)
(***************************************************************************)
\* SELECT ... FROM users WHERE LOWER(username) = LOWER($1) OR LOWER(email) = LOWER($1)
FindByLogin(login) ==
    {u \in DOMAIN users :
        \/ Lower(users[u].username) = Lower(login)
        \/ Lower(users[u].email) = Lower(login)}

\* Variant: an unknown identifier is answered with a message of its own
LoginAnswers_UnknownUser(login, password, dbOk) ==
    IF Falsy(login) \/ Falsy(password)
    THEN {[status |-> 400, body |-> [error |-> "Identifiant et mot de passe requis"],
           issued |-> {}]}
    ELSE IF ~dbOk
    THEN {[status |-> 500, body |-> [error |-> "Erreur lors de la connexion"],
           issued |-> {}]}
    ELSE IF FindByLogin(login) = {}
    THEN {[status |-> 401, body |-> [error |-> "Utilisateur inconnu"], issued |-> {}]}
    ELSE {LET user == users[u]
              signed == GenerateToken(user)
          IN IF ~BcryptCompare(password, user.password_hash)
             THEN [status |-> 401,
                   body |-> [error |-> "Identifiant ou mot de passe incorrect"],
                   issued |-> {}]
             ELSE IF signed.threw
             THEN [status |-> 500, body |-> [error |-> "Erreur lors de la connexion"],
                   issued |-> {}]
             ELSE [status |-> 200,
                   body |-> [user |-> [id |-> user.id, username |-> user.username,
                                       email |-> user.email, role |-> user.role],
                             token |-> signed.token[1]],
                   issued |-> {signed.token[1]}]
          : u \in FindByLogin(login)}

\* What the handler can answer to { login, password }: the status, the JSON
\* body and the token it issued; one answer for each row the SELECT may
\* return first
LoginAnswers(login, password, dbOk) ==
    IF Falsy(login) \/ Falsy(password)
    THEN {[status |-> 400, body |-> [error |-> "Identifiant et mot de passe requis"],
           issued |-> {}]}
    ELSE IF ~dbOk
    THEN {[status |-> 500, body |-> [error |-> "Erreur lors de la connexion"],
           issued |-> {}]}
    ELSE IF FindByLogin(login) = {}
    THEN {[status |-> 401, body |-> [error |-> "Identifiant ou mot de passe incorrect"],
           issued |-> {}]}
    ELSE {LET user == users[u]
              signed == GenerateToken(user)
          IN IF ~BcryptCompare(password, user.password_hash)
             THEN [status |-> 401,
                   body |-> [error |-> "Identifiant ou mot de passe incorrect"],
                   issued |-> {}]
             ELSE IF signed.threw
             THEN [status |-> 500, body |-> [error |-> "Erreur lors de la connexion"],
                   issued |-> {}]
             ELSE [status |-> 200,
                   body |-> [user |-> [id |-> user.id, username |-> user.username,
                                       email |-> user.email, role |-> user.role],
                             token |-> signed.token[1]],
                   issued |-> {signed.token[1]}]
          : u \in FindByLogin(login)}

LoginHandler(login, password, dbOk) ==
    /\ phase = "listening"
    /\ mw' = NoRun
    /\ UNCHANGED <<users, nextId, now, slots, nextToken, latest, okCount, env, phase,
                   reg, ingredients, tables>>
    /\ \E answer \in LoginAnswers(login, password, dbOk) :
          /\ answer.issued \subseteq jwts \/ Cardinality(jwts) < MaxJwts
          /\ jwts' = jwts \cup answer.issued
          /\ resp' = [NoResp EXCEPT !.op = "login", !.status = answer.status,
                                    !.body = answer.body]

\* A login request of a client the limiter does not count
Login(login, password, dbOk) ==
    LoginHandler(login, password, dbOk) /\ UNCHANGED store

(***************************************************************************)
(* GET /auth/me                                                            *)
(***************************************************************************)
Me(header, dbOk) ==
    /\ phase = "listening"
    /\ LET auth == AuthenticateToken(header)
       IN /\ mw' = Ran("GET /auth/me", header, <<>>, auth)
          /\ resp' = IF auth.next # 1 THEN NoResp
                     ELSE IF ~dbOk THEN [NoResp EXCEPT !.op = "me", !.status = 500]
                     ELSE IF auth.user[1].id \notin DOMAIN users
                     THEN [NoResp EXCEPT !.op = "me", !.status = 404]
                     ELSE [NoResp EXCEPT !.op = "me", !.status = 200]
    /\ UNCHANGED <<users, nextId, now, slots, nextToken, latest, okCount, env, phase,
                   jwts, reg, store, ingredients, tables>>

(***************************************************************************)
(* POST /auth/change-password                                              *)
(***************************************************************************)
\* bcrypt.compare(currentPassword, result.rows[0].password_hash)
PasswordMatches(currentPassword, id) ==
    BcryptCompare(currentPassword, users[id].password_hash)

\* Variant: the UPDATE clears the reset token as well
SetPasswordHash_ClearsToken(passwordHash, id) ==
    [u \in DOMAIN users |->
        IF u = id
        THEN [users[u] EXCEPT !.password_hash = passwordHash,
                              !.reset_token = NULL,
                              !.reset_token_expiry = NULL]
        ELSE users[u]]

\* UPDATE users SET password_hash = $1 WHERE id = $2
SetPasswordHash(passwordHash, id) ==
    [u \in DOMAIN users |->
        IF u = id THEN [users[u] EXCEPT !.password_hash = passwordHash] ELSE users[u]]

\* The answer of a change-password step to the body { currentPassword,
\* newPassword }
ChangeAnswer(step, status, currentPassword, newPassword, error) ==
    resp' = [NoResp EXCEPT !.op = "change", !.step = step, !.status = status,
                           !.body = [error |-> error],
                           !.req = [currentPassword |-> currentPassword,
                                    newPassword |-> newPassword]]

\* authenticateToken and the handler up to the answer of bcrypt.compare
ChangePasswordCheck(s, header, currentPassword, newPassword, dbOk) ==
    /\ phase = "listening"
    /\ Free(s)
    /\ UNCHANGED <<users, nextId, now, nextToken, latest, okCount, env, phase, jwts, reg, store, ingredients, tables>>
    /\ LET auth == AuthenticateToken(header)
           failed == "Erreur lors du changement de mot de passe"
       IN /\ mw' = Ran("POST /auth/change-password", header, <<>>, auth)
          /\ IF auth.next # 1
             THEN resp' = NoResp /\ UNCHANGED slots
             ELSE IF Falsy(currentPassword) \/ Falsy(newPassword)
             THEN /\ ChangeAnswer("check", 400, currentPassword, newPassword,
                                  "Mot de passe actuel et nouveau mot de passe requis")
                  /\ UNCHANGED slots
             ELSE IF Len(newPassword) < MinPasswordLength
             THEN /\ ChangeAnswer("check", 400, currentPassword, newPassword,
                        "Le nouveau mot de passe doit contenir au moins 8 caracteres")
                  /\ UNCHANGED slots
             ELSE IF ~dbOk
             THEN /\ ChangeAnswer("check", 500, currentPassword, newPassword, failed)
                  /\ UNCHANGED slots
             ELSE IF auth.user[1].id \notin DOMAIN users
             THEN /\ ChangeAnswer("check", 404, currentPassword, newPassword,
                                  "Utilisateur non trouve")
                  /\ UNCHANGED slots
             ELSE IF ~PasswordMatches(currentPassword, auth.user[1].id)
             THEN /\ ChangeAnswer("check", 401, currentPassword, newPassword,
                                  "Mot de passe actuel incorrect")
                  /\ UNCHANGED slots
             ELSE /\ resp' = NoResp
                  /\ slots' = [slots EXCEPT ![s] =
                                 [IdleSlot EXCEPT !.op = "change", !.pc = "update",
                                                  !.password = newPassword,
                                                  !.current = currentPassword,
                                                  !.uid = auth.user[1].id]]

\* The handler from bcrypt.hash on
ChangePasswordUpdate(s, dbOk) ==
    /\ slots[s].op = "change" /\ slots[s].pc = "update"
    /\ mw' = NoRun
    /\ slots' = [slots EXCEPT ![s] = IdleSlot]
    /\ UNCHANGED <<nextId, now, nextToken, latest, okCount, env, phase, jwts, reg, store, ingredients, tables>>
    /\ IF ~dbOk
       THEN /\ ChangeAnswer("update", 500, slots[s].current, slots[s].password,
                            "Erreur lors du changement de mot de passe")
            /\ UNCHANGED users
       ELSE /\ users' = SetPasswordHash(BcryptHash(slots[s].password, FreshSalt),
                                        slots[s].uid)
            /\ resp' = [NoResp EXCEPT !.op = "change", !.step = "update", !.status = 200,
                          !.body = [message |-> "Mot de passe modifie avec succes"],
                          !.req = [currentPassword |-> slots[s].current,
                                   newPassword |-> slots[s].password]]

(***************************************************************************)
(* /users (admin only)                                                     *)
(***************************************************************************)
\* GET /users
ListUsers(header, dbOk) ==
    /\ phase = "listening"
    /\ LET chain == AdminChain("GET /users", header)
       IN /\ mw' = chain
          /\ resp' = IF ~chain.handler THEN NoResp
                     ELSE IF ~dbOk THEN [NoResp EXCEPT !.op = "users", !.status = 500]
                     ELSE [NoResp EXCEPT !.op = "users", !.status = 200]
    /\ UNCHANGED <<users, nextId, now, slots, nextToken, latest, okCount, env, phase,
                   jwts, reg, store, ingredients, tables>>

\* UPDATE users SET role = $1, updated_at = CURRENT_TIMESTAMP WHERE id = $2
SetRole(role, id) ==
    [u \in DOMAIN users |-> IF u = id THEN [users[u] EXCEPT !.role = role] ELSE users[u]]

\* PATCH /users/:id
PatchUserRole(header, id, role, dbOk) ==
    /\ phase = "listening"
    /\ UNCHANGED <<nextId, now, slots, nextToken, latest, okCount, env, phase, jwts, reg, store, ingredients, tables>>
    /\ LET chain == AdminChain("PATCH /users/:id", header)
       IN /\ mw' = chain
          /\ IF ~chain.handler
             THEN resp' = NoResp /\ UNCHANGED users
             ELSE IF role \notin {"user", "admin"}
             THEN resp' = [NoResp EXCEPT !.op = "patch", !.status = 400]
                  /\ UNCHANGED users
             ELSE IF id = chain.out.user[1].id /\ role # "admin"
             THEN resp' = [NoResp EXCEPT !.op = "patch", !.status = 400]
                  /\ UNCHANGED users
             ELSE IF ~dbOk
             THEN resp' = [NoResp EXCEPT !.op = "patch", !.status = 500]
                  /\ UNCHANGED users
             ELSE IF id \notin DOMAIN users
             THEN resp' = [NoResp EXCEPT !.op = "patch", !.status = 404]
                  /\ UNCHANGED users
             ELSE /\ users' = SetRole(role, id)
                  /\ resp' = [NoResp EXCEPT !.op = "patch", !.status = 200]

\* GET /users/:id
GetUser(header, id, dbOk) ==
    /\ phase = "listening"
    /\ LET chain == AdminChain("GET /users/:id", header)
       IN /\ mw' = chain
          /\ resp' = IF ~chain.handler THEN NoResp
                     ELSE IF ~dbOk THEN [NoResp EXCEPT !.op = "user", !.status = 500]
                     ELSE IF id \notin DOMAIN users
                     THEN [NoResp EXCEPT !.op = "user", !.status = 404]
                     ELSE [NoResp EXCEPT !.op = "user", !.status = 200]
    /\ UNCHANGED <<users, nextId, now, slots, nextToken, latest, okCount, env, phase,
                   jwts, reg, store, ingredients, tables>>

\* DELETE FROM users WHERE id = $1
DeleteRow(id) == [u \in DOMAIN users \ {id} |-> users[u]]

\* DELETE /users/:id; the schema is not part of the source: a foreign-key
\* failure is one of the database errors dbOk = FALSE stands for
DeleteUser(header, id, dbOk) ==
    /\ phase = "listening"
    /\ UNCHANGED <<nextId, now, slots, nextToken, latest, okCount, env, phase, jwts, reg,
                   store, ingredients, tables>>
    /\ LET chain == AdminChain("DELETE /users/:id", header)
       IN /\ mw' = chain
          /\ IF ~chain.handler
             THEN resp' = NoResp /\ UNCHANGED users
             ELSE IF id = chain.out.user[1].id
             THEN resp' = [NoResp EXCEPT !.op = "delete", !.status = 400]
                  /\ UNCHANGED users
             ELSE IF ~dbOk
             THEN resp' = [NoResp EXCEPT !.op = "delete", !.status = 500]
                  /\ UNCHANGED users
             ELSE IF id \notin DOMAIN users
             THEN resp' = [NoResp EXCEPT !.op = "delete", !.status = 404]
                  /\ UNCHANGED users
             ELSE /\ users' = DeleteRow(id)
                  /\ resp' = [NoResp EXCEPT !.op = "delete", !.status = 200]

\* POST /users/:id/reset-password; a missing newPassword is <<>>
AdminResetPassword(header, id, newPassword, dbOk) ==
    /\ phase = "listening"
    /\ UNCHANGED <<nextId, now, slots, nextToken, latest, okCount, env, phase, jwts, reg,
                   store, ingredients, tables>>
    /\ LET chain == AdminChain("POST /users/:id/reset-password", header)
           answer(status) ==
               [NoResp EXCEPT !.op = "adminreset", !.status = status,
                              !.req = [currentPassword |-> <<>>,
                                       newPassword |-> newPassword]]
       IN /\ mw' = chain
          /\ IF ~chain.handler
             THEN resp' = NoResp /\ UNCHANGED users
             ELSE IF Falsy(newPassword) \/ Len(newPassword) < MinPasswordLength
             THEN resp' = answer(400) /\ UNCHANGED users
             ELSE IF ~dbOk
             THEN resp' = answer(500) /\ UNCHANGED users
             ELSE IF id \notin DOMAIN users
             THEN resp' = answer(404) /\ UNCHANGED users
             ELSE /\ users' = SetPasswordHash(BcryptHash(newPassword, FreshSalt), id)
                  /\ resp' = answer(200)

\* The clock in steps that reach the expiry of a bearer token
TickJwt ==
    /\ now < MaxJwtTicks * JwtTickMs
    /\ now' = now + JwtTickMs
    /\ Silent
    /\ mw' = NoRun
    /\ UNCHANGED <<users, nextId, slots, nextToken, latest, okCount, env, phase, jwts,
                   reg, store, ingredients, tables>>

(***************************************************************************)
(* The middleware called on its own                                        *)
(***************************************************************************)
CallAuthenticateToken(header) ==
    /\ mw' = Ran("authenticateToken", header, <<>>, AuthenticateToken(header))
    /\ UNCHANGED <<users, nextId, now, slots, resp, nextToken, latest, okCount, env,
                   phase, jwts, reg, store, ingredients, tables>>

CallRequireAdmin(user) ==
    /\ mw' = Ran("requireAdmin", NoHeader, user, RequireAdmin(user))
    /\ UNCHANGED <<users, nextId, now, slots, resp, nextToken, latest, okCount, env,
                   phase, jwts, reg, store, ingredients, tables>>

CallOptionalAuth(header) ==
    /\ mw' = Ran("optionalAuth", header, <<>>, OptionalAuth(header))
    /\ UNCHANGED <<users, nextId, now, slots, resp, nextToken, latest, okCount, env,
                   phase, jwts, reg, store, ingredients, tables>>

(***************************************************************************)
(* POST /auth/register                                                     *)
(***************************************************************************)
\* The character classes of emailRegex, over the characters the requests use
Letters == UpperCase \cup LowerCase
LocalChars == Letters \cup Digits \cup {".", "_", "%", "+", "-"}
DomainChars == Letters \cup Digits \cup {".", "-"}

\* /^[A-Za-z0-9._%+-]+@[A-Za-z0-9.-]+\.[A-Za-z]{2,}$/.test(email)
EmailRegexTest(email) ==
    \E i \in 2..Len(email), j \in 1..Len(email) :
        /\ email[i] = "@"
        /\ \A k \in 1..(i - 1) : email[k] \in LocalChars
        /\ i + 1 < j
        /\ \A k \in (i + 1)..(j - 1) : email[k] \in DomainChars
        /\ email[j] = "."
        /\ j + 2 <= Len(email)
        /\ \A k \in (j + 1)..Len(email) : email[k] \in Letters

\* Variant: the username must be longer than the minimum
UsernameTooShort_AtBoundary(username) == Len(username) <= MinUsernameLength

\* username.length < 3
UsernameTooShort(username) == Len(username) < MinUsernameLength

\* password.length < 8
PasswordTooShort(password) == Len(password) < MinPasswordLength

\* Variant: the existence check compares without LOWER()
FindExisting_CaseSensitive(username, email) ==
    {u \in DOMAIN users :
        \/ users[u].username = username
        \/ users[u].email = email}

\* SELECT id FROM users WHERE LOWER(username) = LOWER($1) OR LOWER(email) = LOWER($2)
FindExisting(username, email) ==
    {u \in DOMAIN users :
        \/ Lower(users[u].username) = Lower(username)
        \/ Lower(users[u].email) = Lower(email)}

\* The users table keeps usernames and emails unique ignoring letter case: an
\* INSERT of a row that repeats one is rejected
UniqueViolation(username, email) ==
    \E u \in DOMAIN users :
        \/ Lower(users[u].username) = Lower(username)
        \/ Lower(users[u].email) = Lower(email)

\* Variant: the role is taken from the request body when the body has one
InsertUser_BodyRole(body, passwordHash) ==
    users @@ (nextId :> UserRow(nextId, body.username, body.email, passwordHash,
                                IF body.role = "none" THEN "user" ELSE body.role))

\* INSERT INTO users (username, email, password_hash, role) VALUES ($1, $2, $3, 'user')
\* RETURNING id, username, email, role, created_at
InsertUser(body, passwordHash) ==
    users @@ (nextId :> UserRow(nextId, body.username, body.email, passwordHash, "user"))

\* A register request between its two queries, and the answer of the last
\* step: the request body it answers (role stands for any field of the body
\* the handler does not destructure), the status, the JSON body sent, and
\* whether the answer came from the catch block
IdleReg == [pc |-> "idle", username |-> <<>>, email |-> <<>>, password |-> <<>>,
            role |-> "none"]
NoAnswer == [status |-> 0, username |-> <<>>, email |-> <<>>, password |-> <<>>,
             role |-> "none", threw |-> FALSE, body |-> [error |-> "none"]]
NoReg == [slots |-> [s \in Slots |-> IdleReg], last |-> NoAnswer]

RegFree(s) ==
    /\ reg.slots[s].pc = "idle"
    /\ \A q \in Slots : q < s => reg.slots[q].pc # "idle"

\* res.status(status).json(body) for the request req
RegAnswer(s, status, req, threw, body) ==
    reg' = [slots |-> [reg.slots EXCEPT ![s] = IdleReg],
            last |-> [status |-> status, username |-> req.username,
                      email |-> req.email, password |-> req.password,
                      role |-> req.role, threw |-> threw, body |-> body]]

\* The handler up to the answer of the existence check
RegisterCheckHandler(s, username, email, password, role, dbOk) ==
    /\ phase = "listening"
    /\ RegFree(s)
    /\ nextId <= MaxUserId
    /\ UNCHANGED <<users, nextId, now, slots, resp, nextToken, latest, okCount, env,
                   phase, jwts, mw, ingredients, tables>>
    /\ LET req == [pc |-> "insert", username |-> username, email |-> email,
                   password |-> password, role |-> role]
       IN IF Falsy(username) \/ Falsy(email) \/ Falsy(password)
          THEN RegAnswer(s, 400, req, FALSE,
                         [error |-> "Nom d'utilisateur, email et mot de passe requis"])
          ELSE IF UsernameTooShort(username)
          THEN RegAnswer(s, 400, req, FALSE,
                         [error |-> "Le nom d'utilisateur doit contenir au moins 3 caracteres"])
          ELSE IF PasswordTooShort(password)
          THEN RegAnswer(s, 400, req, FALSE,
                         [error |-> "Le mot de passe doit contenir au moins 8 caracteres"])
          ELSE IF ~EmailRegexTest(email)
          THEN RegAnswer(s, 400, req, FALSE, [error |-> "Format d'email invalide"])
          ELSE IF ~dbOk
          THEN RegAnswer(s, 500, req, TRUE, [error |-> "Erreur lors de l'inscription"])
          ELSE IF FindExisting(username, email) # {}
          THEN RegAnswer(s, 409, req, FALSE,
                         [error |-> "Ce nom d'utilisateur ou email est deja utilise"])
          ELSE reg' = [slots |-> [reg.slots EXCEPT ![s] = req], last |-> NoAnswer]

\* A register request of a client the limiter does not count
RegisterCheck(s, username, email, password, role, dbOk) ==
    RegisterCheckHandler(s, username, email, password, role, dbOk) /\ UNCHANGED store

\* The handler from bcrypt.hash on.  The INSERT throws when the connection
\* fails or when the table's unique constraint rejects the row.
RegisterInsert(s, dbOk) ==
    /\ reg.slots[s].pc = "insert"
    /\ UNCHANGED <<now, slots, resp, nextToken, latest, okCount, env, phase, mw, store, ingredients, tables>>
    /\ LET r == reg.slots[s]
           passwordHash == BcryptHash(r.password, FreshSalt)
           inserted == InsertUser(r, passwordHash)
           user == inserted[nextId]
           signed == GenerateToken(user)
           failed == [error |-> "Erreur lors de l'inscription"]
       IN IF ~dbOk \/ UniqueViolation(r.username, r.email)
          THEN /\ RegAnswer(s, 500, r, TRUE, failed)
               /\ UNCHANGED <<users, nextId, jwts>>
          ELSE /\ users' = inserted
               /\ nextId' = nextId + 1
               /\ IF signed.threw
                  THEN RegAnswer(s, 500, r, TRUE, failed) /\ UNCHANGED jwts
                  ELSE /\ RegAnswer(s, 201, r, FALSE,
                                    [user |-> [id |-> user.id, username |-> user.username,
                                               email |-> user.email, role |-> user.role],
                                     token |-> signed.token[1]])
                       /\ jwts' = jwts \cup {signed.token[1]}

(***************************************************************************)
(* /ingredients (routes/ingredients.js)                                    *)
(***************************************************************************)
\* JSON values of in_stock: the two booleans, and a value that is no boolean
StockValues == {"true", "false"}
NotBoolean == "abc"

IngredientRow(name, in_stock) == [name |-> name, in_stock |-> in_stock]

SeedIngredients ==
    (1 :> IngredientRow(<<"A", "b">>, "true")) @@ (2 :> IngredientRow(<<"b", "c">>, "true"))

\* A bulk update between two of its statements: the list of the body, the
\* index of the next UPDATE, the rows the open transaction has written and
\* holds locked, and as history the Authorization header of the request, the
\* statement that threw, whether COMMIT
\* succeeded and changed a row, and the pooled clients acquired and released
NoBulk == [pc |-> "idle", header |-> NoHeader, list |-> <<>>, i |-> 0, writes |-> <<>>,
           failed |-> "none", changed |-> FALSE, acquired |-> 0, released |-> 0]

\* The answer of the last step of an ingredients request that sent one
NoIngredientAnswer == [op |-> "none", status |-> 0, list |-> <<>>, failed |-> "none",
                       changed |-> FALSE, acquired |-> 0, released |-> 0]

NoIngredients == [rows |-> SeedIngredients,
                  nextId |-> 3,
                  bulk |-> [s \in Slots |-> NoBulk],
                  last |-> NoIngredientAnswer]

\* What the steps of the ingredients routes leave alone
OnlyIngredients ==
    UNCHANGED <<users, nextId, now, slots, nextToken, latest, okCount, env, phase, jwts,
                reg, store, tables>>

\* The routes of ingredients.js have no middleware in front of the handler
NoChain(route, header) == Ran(route, header, <<>>, Continue("none", <<>>))

\* Another open transaction holds the row lock of id
Locked(s, id) ==
    \E q \in Slots \ {s} : id \in DOMAIN ingredients.bulk[q].writes

LockedByAny(id) ==
    \E q \in Slots : id \in DOMAIN ingredients.bulk[q].writes

\* UPDATE available_ingredients SET in_stock = $1 WHERE id = $2, autocommitted
SetInStock(rows, id, in_stock) ==
    [k \in DOMAIN rows |-> IF k = id THEN [rows[k] EXCEPT !.in_stock = in_stock]
                           ELSE rows[k]]

\* The rows the transaction's writes become at COMMIT
Commit(rows, writes) ==
    [k \in DOMAIN rows |-> IF k \in DOMAIN writes
                           THEN [rows[k] EXCEPT !.in_stock = writes[k]]
                           ELSE rows[k]]

\* Variant: the statement is sent outside the transaction and commits at once
UpdateInTransaction_AutoCommit(rows, writes, ing) ==
    [rows |-> IF ing.id \in DOMAIN rows THEN SetInStock(rows, ing.id, ing.in_stock)
              ELSE rows,
     writes |-> writes]

\* client.query('UPDATE ... SET in_stock = $1 WHERE id = $2') after BEGIN: the
\* committed rows stay, the write is the transaction's own
UpdateInTransaction(rows, writes, ing) ==
    [rows |-> rows,
     writes |-> IF ing.id \in DOMAIN rows THEN (ing.id :> ing.in_stock) @@ writes
                ELSE writes]

\* res.status(status).json(...) of the bulk update in slot s
BulkAnswer(s, status, b) ==
    /\ resp' = [NoResp EXCEPT !.op = "bulk-update", !.status = status]
    /\ ingredients' =
          [ingredients EXCEPT
             !.bulk[s] = NoBulk,
             !.last = [op |-> "bulk-update", status |-> status, list |-> b.list,
                       failed |-> b.failed, changed |-> b.changed,
                       acquired |-> b.acquired, released |-> b.released]]

BulkFree(s) ==
    /\ ingredients.bulk[s].pc = "idle"
    /\ \A q \in Slots : q < s => ingredients.bulk[q].pc # "idle"

\* POST /ingredients/bulk-update up to pool.connect()
BulkStart(s, header, isArray, list, connected) ==
    /\ phase = "listening"
    /\ BulkFree(s)
    /\ OnlyIngredients
    /\ mw' = NoChain("POST /ingredients/bulk-update", header)
    /\ LET b == [NoBulk EXCEPT !.list = list, !.header = header]
       IN IF ~isArray
          THEN BulkAnswer(s, 400, b)
          ELSE IF ~connected
          THEN BulkAnswer(s, 500, [b EXCEPT !.failed = "connect"])
          ELSE /\ resp' = NoResp
               /\ ingredients' = [ingredients EXCEPT
                                    !.bulk[s] = [b EXCEPT !.pc = "begin", !.acquired = 1],
                                    !.last = NoIngredientAnswer]

\* A statement of the transaction threw: control goes to the catch block
BulkThrow(s, statement) ==
    /\ resp' = NoResp
    /\ ingredients' = [ingredients EXCEPT
                         !.bulk[s] = [@ EXCEPT !.pc = "rollback", !.failed = statement],
                         !.last = NoIngredientAnswer]

\* client.query('BEGIN')
BulkBegin(s, dbOk) ==
    /\ ingredients.bulk[s].pc = "begin"
    /\ OnlyIngredients /\ UNCHANGED mw
    /\ IF ~dbOk
       THEN BulkThrow(s, "begin")
       ELSE /\ resp' = NoResp
            /\ ingredients' = [ingredients EXCEPT
                                 !.bulk[s] = [@ EXCEPT !.pc = "update", !.i = 1],
                                 !.last = NoIngredientAnswer]

\* One turn of the for loop: the UPDATE of the next element of the list.  It
\* throws when the connection fails, when the value is no boolean, or when the
\* wait for a row lock is broken off (deadlock); it waits while another
\* transaction holds the row lock.
BulkUpdate(s, dbOk) ==
    /\ ingredients.bulk[s].pc = "update"
    /\ ingredients.bulk[s].i <= Len(ingredients.bulk[s].list)
    /\ OnlyIngredients /\ UNCHANGED mw
    /\ LET b == ingredients.bulk[s]
           ing == b.list[b.i]
           after == UpdateInTransaction(ingredients.rows, b.writes, ing)
       IN IF ~dbOk \/ ing.in_stock \notin StockValues
          THEN BulkThrow(s, "update")
          ELSE /\ ~Locked(s, ing.id)
               /\ resp' = NoResp
               /\ ingredients' = [ingredients EXCEPT
                                    !.rows = after.rows,
                                    !.bulk[s] = [@ EXCEPT !.i = @ + 1,
                                                          !.writes = after.writes],
                                    !.last = NoIngredientAnswer]

\* client.query('COMMIT') after the loop
BulkCommit(s, dbOk) ==
    /\ ingredients.bulk[s].pc = "update"
    /\ ingredients.bulk[s].i > Len(ingredients.bulk[s].list)
    /\ OnlyIngredients /\ UNCHANGED mw
    /\ LET b == ingredients.bulk[s]
           rows == Commit(ingredients.rows, b.writes)
       IN IF ~dbOk
          THEN BulkThrow(s, "commit")
          ELSE /\ resp' = NoResp
               /\ ingredients' = [ingredients EXCEPT
                                    !.rows = rows,
                                    !.bulk[s] = [@ EXCEPT
                                                   !.pc = "select", !.writes = <<>>,
                                                   !.changed = rows # ingredients.rows],
                                    !.last = NoIngredientAnswer]

\* The SELECT of the updated list, res.json and the finally block
BulkSelect(s, dbOk) ==
    /\ ingredients.bulk[s].pc = "select"
    /\ OnlyIngredients /\ UNCHANGED mw
    /\ IF ~dbOk
       THEN BulkThrow(s, "select")
       ELSE BulkAnswer(s, 200, [ingredients.bulk[s] EXCEPT !.released = @ + 1])

\* The catch block (ROLLBACK, rethrow), the finally block and the outer catch
\* block.  ROLLBACK ends the open transaction; after COMMIT there is none.
\* When ROLLBACK itself throws, the connection is gone, and with it the
\* transaction.
BulkRollback(s) ==
    /\ ingredients.bulk[s].pc = "rollback"
    /\ OnlyIngredients /\ UNCHANGED mw
    /\ BulkAnswer(s, 500, [ingredients.bulk[s] EXCEPT !.released = @ + 1])

\* GET /ingredients
ListIngredients(header, dbOk) ==
    /\ phase = "listening"
    /\ OnlyIngredients
    /\ mw' = NoChain("GET /ingredients", header)
    /\ resp' = [NoResp EXCEPT !.op = "ingredients", !.status = IF dbOk THEN 200 ELSE 500,
                              !.body = IF dbOk THEN [rows |-> ingredients.rows]
                                       ELSE [error |-> "Failed to fetch ingredients"]]
    /\ ingredients' = [ingredients EXCEPT !.last = NoIngredientAnswer]

\* res.status(status).json(...) of a one-statement ingredients route
IngredientAnswer(op, status, rows, nextIngredient) ==
    /\ resp' = [NoResp EXCEPT !.op = op, !.status = status]
    /\ ingredients' = [ingredients EXCEPT
                         !.rows = rows, !.nextId = nextIngredient,
                         !.last = [NoIngredientAnswer EXCEPT
                                     !.op = op, !.status = status,
                                     !.changed = rows # ingredients.rows]]

\* PATCH /ingredients/:id
PatchIngredient(header, id, in_stock, dbOk) ==
    /\ phase = "listening"
    /\ OnlyIngredients
    /\ mw' = NoChain("PATCH /ingredients/:id", header)
    /\ IF in_stock \notin StockValues
       THEN IngredientAnswer("patch", 400, ingredients.rows, ingredients.nextId)
       ELSE IF ~dbOk
       THEN IngredientAnswer("patch", 500, ingredients.rows, ingredients.nextId)
       ELSE IF id \notin DOMAIN ingredients.rows
       THEN IngredientAnswer("patch", 404, ingredients.rows, ingredients.nextId)
       ELSE /\ ~LockedByAny(id)
            /\ IngredientAnswer("patch", 200, SetInStock(ingredients.rows, id, in_stock),
                                ingredients.nextId)

\* UPDATE ... WHERE LOWER(name) = LOWER($2)
FindByName(name) ==
    {k \in DOMAIN ingredients.rows : Lower(ingredients.rows[k].name) = Lower(name)}

\* POST /ingredients/toggle
ToggleIngredient(header, name, in_stock, dbOk) ==
    /\ phase = "listening"
    /\ OnlyIngredients
    /\ mw' = NoChain("POST /ingredients/toggle", header)
    /\ IF Falsy(name) \/ in_stock \notin StockValues
       THEN IngredientAnswer("toggle", 400, ingredients.rows, ingredients.nextId)
       ELSE IF ~dbOk
       THEN IngredientAnswer("toggle", 500, ingredients.rows, ingredients.nextId)
       ELSE IF FindByName(name) = {}
       THEN IngredientAnswer("toggle", 404, ingredients.rows, ingredients.nextId)
       ELSE /\ \A k \in FindByName(name) : ~LockedByAny(k)
            /\ IngredientAnswer("toggle", 200,
                                [k \in DOMAIN ingredients.rows |->
                                   IF k \in FindByName(name)
                                   THEN [ingredients.rows[k] EXCEPT !.in_stock = in_stock]
                                   ELSE ingredients.rows[k]],
                                ingredients.nextId)

\* String.prototype.trim, for the blank the model's names can hold
Blank == " "

RECURSIVE TrimStart(_)
TrimStart(str) ==
    IF str # <<>> /\ Head(str) = Blank THEN TrimStart(Tail(str)) ELSE str

RECURSIVE TrimEnd(_)
TrimEnd(str) ==
    IF str # <<>> /\ str[Len(str)] = Blank THEN TrimEnd(SubSeq(str, 1, Len(str) - 1))
    ELSE str

Trim(str) == TrimEnd(TrimStart(str))

\* The unique constraint on the name of an ingredient
NameTaken(name) ==
    \E k \in DOMAIN ingredients.rows : ingredients.rows[k].name = name

\* POST /ingredients, in_stock defaulting to true.  The INSERT throws with
\* code 23505 when the name is taken.
CreateIngredient(header, name, in_stock, dbOk) ==
    /\ phase = "listening"
    /\ OnlyIngredients
    /\ mw' = NoChain("POST /ingredients", header)
    /\ IF Falsy(name) \/ Falsy(Trim(name))
       THEN IngredientAnswer("create", 400, ingredients.rows, ingredients.nextId)
       ELSE IF ~dbOk \/ in_stock \notin StockValues
       THEN IngredientAnswer("create", 500, ingredients.rows, ingredients.nextId)
       ELSE IF NameTaken(Trim(name))
       THEN IngredientAnswer("create", 409, ingredients.rows, ingredients.nextId)
       ELSE /\ ingredients.nextId <= MaxIngredientId
            /\ IngredientAnswer("create", 201,
                             ingredients.rows @@
                               (ingredients.nextId :> IngredientRow(Trim(name), in_stock)),
                             ingredients.nextId + 1)

(***************************************************************************)
(* Orders, cocktails and admin routes                                      *)
(***************************************************************************)
\* validStatuses
OrderStatuses == {"pending", "preparing", "ready", "completed", "cancelled"}

OrderRow(id, user_id, cocktail_id, status) ==
    [id |-> id, user_id |-> user_id, cocktail_id |-> cocktail_id, status |-> status]

CocktailRow(id, name, list, available) ==
    [id |-> id, name |-> name, ingredients |-> list, available |-> available]

Mojito == <<"m", "o">>
Gin == <<"g", "i", "n">>

SeedTables ==
    [orders |-> (1 :> OrderRow(1, 2, Mojito, "pending")),
     nextOrder |-> 2,
     cocktails |-> (Mojito :> CocktailRow(Mojito, <<"M", "o">>, <<Gin>>, "true"))]

\* What the routes of the orders, cocktails and admin routers leave alone
OnlyTables ==
    UNCHANGED <<users, nextId, now, slots, nextToken, latest, okCount, env, phase, jwts,
                reg, store, ingredients>>

\* res.status(status).json(...) of one of these routes
TableAnswer(op, status) == resp' = [NoResp EXCEPT !.op = op, !.status = status]

\* router.<verb>(path, authenticateToken, handler)
AuthChain(route, header) == Ran(route, header, <<>>, AuthenticateToken(header))

\* GET /orders
ListOrders(header, dbOk) ==
    /\ phase = "listening"
    /\ OnlyTables /\ UNCHANGED tables
    /\ LET chain == AdminChain("GET /orders", header)
       IN /\ mw' = chain
          /\ IF ~chain.handler THEN resp' = NoResp
             ELSE TableAnswer("orders", IF dbOk THEN 200 ELSE 500)

\* GET /orders/my
MyOrders(header, dbOk) ==
    /\ phase = "listening"
    /\ OnlyTables /\ UNCHANGED tables
    /\ LET chain == AuthChain("GET /orders/my", header)
       IN /\ mw' = chain
          /\ IF ~chain.handler THEN resp' = NoResp
             ELSE TableAnswer("my", IF dbOk THEN 200 ELSE 500)

\* INSERT INTO orders (user_id, cocktail_id, notes, status) VALUES (.., 'pending')
InsertOrder(t, user_id, cocktail_id) ==
    [t EXCEPT !.orders = t.orders @@ (t.nextOrder :>
                            OrderRow(t.nextOrder, user_id, cocktail_id, "pending")),
              !.nextOrder = t.nextOrder + 1]

\* POST /orders; a missing cocktailId is <<>>
CreateOrder(header, cocktailId, dbOk) ==
    /\ phase = "listening"
    /\ OnlyTables
    /\ LET chain == AuthChain("POST /orders", header)
       IN /\ mw' = chain
          /\ IF ~chain.handler THEN resp' = NoResp /\ UNCHANGED tables
             ELSE IF Falsy(cocktailId)
             THEN TableAnswer("order", 400) /\ UNCHANGED tables
             ELSE IF ~dbOk
             THEN TableAnswer("order", 500) /\ UNCHANGED tables
             ELSE IF cocktailId \notin DOMAIN tables.cocktails
             THEN TableAnswer("order", 404) /\ UNCHANGED tables
             ELSE IF tables.cocktails[cocktailId].available # "true"
             THEN TableAnswer("order", 400) /\ UNCHANGED tables
             ELSE /\ tables.nextOrder <= MaxOrderId
                  /\ tables' = InsertOrder(tables, chain.out.user[1].id, cocktailId)
                  /\ TableAnswer("order", 201)

\* UPDATE orders SET status = $1 WHERE id = $2
SetOrderStatus(t, status, id) ==
    [t EXCEPT !.orders = [o \in DOMAIN t.orders |->
                             IF o = id THEN [t.orders[o] EXCEPT !.status = status]
                             ELSE t.orders[o]]]

\* PATCH /orders/:id; a missing status is ""
PatchOrder(header, id, status, dbOk) ==
    /\ phase = "listening"
    /\ OnlyTables
    /\ LET chain == AdminChain("PATCH /orders/:id", header)
       IN /\ mw' = chain
          /\ IF ~chain.handler THEN resp' = NoResp /\ UNCHANGED tables
             ELSE IF status = "" \/ status \notin OrderStatuses
             THEN TableAnswer("order", 400) /\ UNCHANGED tables
             ELSE IF ~dbOk
             THEN TableAnswer("order", 500) /\ UNCHANGED tables
             ELSE IF id \notin DOMAIN tables.orders
             THEN TableAnswer("order", 404) /\ UNCHANGED tables
             ELSE /\ tables' = SetOrderStatus(tables, status, id)
                  /\ TableAnswer("order", 200)

\* DELETE FROM orders WHERE id = $1
DeleteOrderRow(t, id) ==
    [t EXCEPT !.orders = [o \in DOMAIN t.orders \ {id} |-> t.orders[o]]]

\* DELETE /orders/:id
DeleteOrder(header, id, dbOk) ==
    /\ phase = "listening"
    /\ OnlyTables
    /\ LET chain == AdminChain("DELETE /orders/:id", header)
       IN /\ mw' = chain
          /\ IF ~chain.handler THEN resp' = NoResp /\ UNCHANGED tables
             ELSE IF ~dbOk
             THEN TableAnswer("order", 500) /\ UNCHANGED tables
             ELSE IF id \notin DOMAIN tables.orders
             THEN TableAnswer("order", 404) /\ UNCHANGED tables
             ELSE /\ tables' = DeleteOrderRow(tables, id)
                  /\ TableAnswer("order", 200)

\* DELETE /orders
DeleteOrders(header, dbOk) ==
    /\ phase = "listening"
    /\ OnlyTables
    /\ LET chain == AdminChain("DELETE /orders", header)
       IN /\ mw' = chain
          /\ IF ~chain.handler THEN resp' = NoResp /\ UNCHANGED tables
             ELSE IF ~dbOk
             THEN TableAnswer("orders", 500) /\ UNCHANGED tables
             ELSE /\ tables' = [tables EXCEPT !.orders = <<>>]
                  /\ TableAnswer("orders", 200)

\* The characters [a-z0-9]
IsSlugChar(c) == c \in LowerCase \cup Digits

\* .replace(/[^a-z0-9]+/g, '-')
RECURSIVE ReplaceRuns(_)
ReplaceRuns(s) ==
    IF s = <<>> THEN <<>>
    ELSE IF IsSlugChar(Head(s)) THEN <<Head(s)>> \o ReplaceRuns(Tail(s))
    ELSE IF Len(s) > 1 /\ ~IsSlugChar(s[2]) THEN ReplaceRuns(Tail(s))
    ELSE <<"-">> \o ReplaceRuns(Tail(s))

\* .replace(/^-|-$/g, '')
StripDashes(s) ==
    LET a == IF s # <<>> /\ Head(s) = "-" THEN Tail(s) ELSE s
    IN IF a # <<>> /\ a[Len(a)] = "-" THEN SubSeq(a, 1, Len(a) - 1) ELSE a

\* id || name.toLowerCase().normalize('NFD')...: the alphabet of the model has no
\* accented letter
CocktailId(id, name) ==
    IF ~Falsy(id) THEN id ELSE StripDashes(ReplaceRuns(Lower(name)))

\* POST /cocktails; a missing id, name or ingredients is <<>>, ingredients is
\* an array when isArray
CreateCocktail(header, id, name, isArray, list, dbOk) ==
    /\ phase = "listening"
    /\ OnlyTables
    /\ LET chain == AdminChain("POST /cocktails", header)
           cocktailId == CocktailId(id, name)
       IN /\ mw' = chain
          /\ IF ~chain.handler THEN resp' = NoResp /\ UNCHANGED tables
             ELSE IF Falsy(name) \/ ~isArray
             THEN TableAnswer("cocktail", 400) /\ UNCHANGED tables
             ELSE IF ~dbOk
             THEN TableAnswer("cocktail", 500) /\ UNCHANGED tables
             ELSE IF cocktailId \in DOMAIN tables.cocktails
             THEN TableAnswer("cocktail", 409) /\ UNCHANGED tables
             ELSE /\ Cardinality(DOMAIN tables.cocktails) < MaxCocktails
                  /\ tables' = [tables EXCEPT !.cocktails = tables.cocktails @@
                                  (cocktailId :> CocktailRow(cocktailId, name, list, "true"))]
                  /\ TableAnswer("cocktail", 201)

\* UPDATE cocktails SET <the fields of the body that are not undefined> WHERE
\* id = $n; an undefined field is <<>>, a defined one <<value>>
SetCocktail(t, id, available, name, list) ==
    [t EXCEPT !.cocktails = [c \in DOMAIN t.cocktails |->
        IF c # id THEN t.cocktails[c]
        ELSE [t.cocktails[c] EXCEPT
                !.available = IF available = <<>> THEN @ ELSE available[1],
                !.name = IF name = <<>> THEN @ ELSE name[1],
                !.ingredients = IF list = <<>> THEN @ ELSE list[1]]]]

\* PATCH /cocktails/:id; a value the boolean column does not take makes the
\* statement fail
PatchCocktail(header, id, available, name, list, dbOk) ==
    /\ phase = "listening"
    /\ OnlyTables
    /\ LET chain == AdminChain("PATCH /cocktails/:id", header)
       IN /\ mw' = chain
          /\ IF ~chain.handler THEN resp' = NoResp /\ UNCHANGED tables
             ELSE IF available = <<>> /\ name = <<>> /\ list = <<>>
             THEN TableAnswer("cocktail", 400) /\ UNCHANGED tables
             ELSE IF ~dbOk \/ (available # <<>> /\ available[1] \notin StockValues)
             THEN TableAnswer("cocktail", 500) /\ UNCHANGED tables
             ELSE IF id \notin DOMAIN tables.cocktails
             THEN TableAnswer("cocktail", 404) /\ UNCHANGED tables
             ELSE /\ tables' = SetCocktail(tables, id, available, name, list)
                  /\ TableAnswer("cocktail", 200)

\* GET /cocktails and GET /cocktails/:id: no middleware
ReadCocktails(route, header, dbOk) ==
    /\ phase = "listening"
    /\ OnlyTables /\ UNCHANGED tables
    /\ mw' = NoChain(route, header)
    /\ TableAnswer("cocktails", IF dbOk THEN 200 ELSE 500)

\* GET /admin/stats, GET /admin/orders/summary, GET /admin/cocktails/popular
AdminRead(route, header, dbOk) ==
    /\ phase = "listening"
    /\ OnlyTables /\ UNCHANGED tables
    /\ LET chain == AdminChain(route, header)
       IN /\ mw' = chain
          /\ IF ~chain.handler THEN resp' = NoResp
             ELSE TableAnswer("admin", IF dbOk THEN 200 ELSE 500)

\* UPDATE cocktails SET available = $1 WHERE id = ANY($2)
SetAvailable(t, available, ids) ==
    [t EXCEPT !.cocktails = [c \in DOMAIN t.cocktails |->
        IF c \in ids THEN [t.cocktails[c] EXCEPT !.available = available]
        ELSE t.cocktails[c]]]

\* POST /admin/cocktails/toggle-availability; cocktailIds is an array when
\* isArray
ToggleAvailability(header, isArray, cocktailIds, available, dbOk) ==
    /\ phase = "listening"
    /\ OnlyTables
    /\ LET chain == AdminChain("POST /admin/cocktails/toggle-availability", header)
       IN /\ mw' = chain
          /\ IF ~chain.handler THEN resp' = NoResp /\ UNCHANGED tables
             ELSE IF ~isArray \/ available \notin StockValues
             THEN TableAnswer("admin", 400) /\ UNCHANGED tables
             ELSE IF ~dbOk
             THEN TableAnswer("admin", 500) /\ UNCHANGED tables
             ELSE /\ tables' = SetAvailable(tables, available, cocktailIds)
                  /\ TableAnswer("admin", 200)

(***************************************************************************)
(* Rate limiting: middleware/rateLimiter.js, express-rate-limit with its   *)
(* default in-memory store and key (req.ip)                                *)
(***************************************************************************)
Clients == {"10.0.0.1", "10.0.0.2"}

\* authLimiter
AuthWindowMs == 15 * 60 * 1000
AuthMax == 5
AuthMessage == [error |-> "Trop de tentatives, veuillez reessayer dans 15 minutes"]

\* The store of one limiter: per key the hits of its window and the time the
\* window ends
EmptyStore == [hits |-> [c \in Clients |-> 0], resetTime |-> [c \in Clients |-> 0]]

\* The window of key is over (or was never opened)
WindowOver(st, key) == st.resetTime[key] <= now

\* store.increment(key): a hit after the end of the window opens a new one
Increment(st, key, windowMs) ==
    [hits |-> [st.hits EXCEPT ![key] = IF WindowOver(st, key) THEN 1 ELSE @ + 1],
     resetTime |-> [st.resetTime EXCEPT
                      ![key] = IF WindowOver(st, key) THEN now + windowMs ELSE @]]

\* store.decrement(key)
Decrement(st, key) ==
    [st EXCEPT !.hits[key] = IF @ > 0 THEN @ - 1 ELSE 0]

\* Requests of one client past the limiter: those that arrived in the client's
\* current window and those that arrived in an earlier one
NoTickets == [cur |-> 0, old |-> 0]
Windows == {"cur", "old"}

\* The stores, and as history: failed, per client the responses with a status
\* of 400 or more (the limiter's own 429 included) to requests of the current
\* window; calls, per client the requests outside /auth of the current minute;
\* ops, per client the sensitive requests of the current hour
NoStore == [auth |-> EmptyStore,
            api |-> EmptyStore,
            calls |-> [c \in Clients |-> 0],
            ops |-> [c \in Clients |-> 0],
            passed |-> [c \in Clients |-> NoTickets],
            failed |-> [c \in Clients |-> 0]]

RECURSIVE TicketsIn(_)
TicketsIn(S) ==
    IF S = {} THEN 0
    ELSE LET c == CHOOSE x \in S : TRUE
         IN store.passed[c].cur + store.passed[c].old + TicketsIn(S \ {c})

\* requestWasSuccessful: response.statusCode < 400
RequestWasSuccessful(status) == status < 400

\* totalHits > max
OverLimit(totalHits, max) == totalHits > max

\* The middleware on the arrival of a request of client c: the hit is counted
\* first; over the limit the middleware answers 429 itself, otherwise next()
AuthLimiter(c) ==
    /\ phase = "listening"
    /\ WindowOver(store.auth, c) \/ store.auth.hits[c] < MaxHits
    /\ UNCHANGED <<users, nextId, now, slots, nextToken, latest, okCount, env, phase,
                   jwts, mw, reg, ingredients, tables>>
    /\ LET st == Increment(store.auth, c, AuthWindowMs)
           opened == WindowOver(store.auth, c)
           tickets == store.passed[c]
           carried == IF opened THEN [cur |-> 0, old |-> tickets.cur + tickets.old]
                      ELSE tickets
           failed == IF opened THEN 0 ELSE store.failed[c]
       IN IF OverLimit(st.hits[c], AuthMax)
          THEN /\ resp' = [NoResp EXCEPT !.op = "authLimiter", !.status = 429,
                                         !.body = AuthMessage, !.req = [ip |-> c]]
               /\ store' = [store EXCEPT !.auth = st, !.passed[c] = carried,
                                         !.failed[c] = failed + 1]
          ELSE /\ TicketsIn(Clients) < MaxInFlight
               /\ resp' = NoResp
               /\ store' = [store EXCEPT !.auth = st,
                                         !.passed[c] = [carried EXCEPT !.cur = @ + 1],
                                         !.failed[c] = failed]

\* response.on('finish'): with skipSuccessfulRequests the hit of a successful
\* request is taken back
OnFinish(c, w, status) ==
    store' = [store EXCEPT
                !.auth = IF RequestWasSuccessful(status) THEN Decrement(@, c) ELSE @,
                !.passed[c][w] = @ - 1,
                !.failed[c] = IF status >= 400 /\ w = "cur" THEN @ + 1 ELSE @]

\* POST /auth/login of a request past the limiter
AuthLogin(c, w, login, password, dbOk) ==
    /\ store.passed[c][w] > 0
    /\ LoginHandler(login, password, dbOk)
    /\ OnFinish(c, w, resp'.status)

\* POST /auth/register of a request past the limiter, for the requests the
\* handler answers before its INSERT
AuthRegister(c, w, s, username, email, password, dbOk) ==
    /\ store.passed[c][w] > 0
    /\ RegisterCheckHandler(s, username, email, password, "none", dbOk)
    /\ reg'.last.status # 0
    /\ OnFinish(c, w, reg'.last.status)

\* Time passes by one window of the auth limiter
TickWindow ==
    /\ now < MaxWindows * AuthWindowMs
    /\ now' = now + AuthWindowMs
    /\ Silent
    /\ UNCHANGED <<users, nextId, slots, nextToken, latest, okCount, env, phase, jwts,
                   mw, reg, store, ingredients, tables>>

\* apiLimiter
ApiWindowMs == 60 * 1000
ApiMax == 100
ApiMessage == [error |-> "Trop de requetes, veuillez ralentir"]

\* Request paths, as their segments
ApiMount == <<"api">>
Routers == {"cocktails", "orders", "admin", "ingredients", "users"}

\* app.use(mount, ...): the middleware runs for the paths that start with mount
Mounted(mount, path) ==
    Len(path) >= Len(mount) /\ SubSeq(path, 1, Len(mount)) = mount

\* The answer of the routes of index.js below the limiters; what a router
\* answers stands as 200
Dispatch(path) ==
    IF path = <<"health">>
    THEN [NoResp EXCEPT !.op = "health", !.status = 200]
    ELSE IF path # <<>> /\ path[1] \in Routers
    THEN [NoResp EXCEPT !.op = "router", !.status = 200]
    ELSE [NoResp EXCEPT !.op = "notFound", !.status = 404,
                        !.body = [error |-> "Route not found"]]

\* A request of client c for a path outside /auth through the middleware of
\* index.js: apiLimiter where it is mounted, then the routes
Request(c, path) ==
    /\ phase = "listening"
    /\ store.calls[c] < MaxCalls
    /\ UNCHANGED <<users, nextId, now, slots, nextToken, latest, okCount, env, phase,
                   jwts, mw, reg, ingredients, tables>>
    /\ LET limited == Mounted(ApiMount, path)
           st == IF limited THEN Increment(store.api, c, ApiWindowMs) ELSE store.api
       IN /\ store' = [store EXCEPT !.api = st, !.calls[c] = @ + 1]
          /\ resp' = IF limited /\ OverLimit(st.hits[c], ApiMax)
                     THEN [NoResp EXCEPT !.op = "apiLimiter", !.status = 429,
                                         !.body = ApiMessage]
                     ELSE Dispatch(path)

\* Time passes by one window of the api limiter
TickMinute ==
    /\ now < MaxWindows * ApiWindowMs
    /\ now' = now + ApiWindowMs
    /\ Silent
    /\ store' = [store EXCEPT !.calls = [c \in Clients |-> 0]]
    /\ UNCHANGED <<users, nextId, slots, nextToken, latest, okCount, env, phase, jwts,
                   mw, reg, ingredients, tables>>

\* sensitiveOpLimiter
SensitiveWindowMs == 60 * 60 * 1000
SensitiveMax == 10
SensitiveMessage == [error |-> "Trop de tentatives pour cette operation"]

\* The limiters index.js and the routers put before the route of a path: the
\* import of index.js names apiLimiter and authLimiter only, and no router
\* imports rateLimiter.js
LimitersOf(path) ==
    (IF Mounted(ApiMount, path) THEN {"apiLimiter"} ELSE {})
      \cup (IF Mounted(<<"auth">>, path) THEN {"authLimiter"} ELSE {})

\* Password change and the destructive admin operations
SensitivePaths == {<<"auth", "change-password">>, <<"users", "id">>, <<"orders">>}

\* A sensitive request of client c whose handler, when it runs, answers status
SensitiveRequest(c, path, status) ==
    /\ phase = "listening"
    /\ store.ops[c] < MaxOps
    /\ UNCHANGED <<users, nextId, now, slots, nextToken, latest, okCount, env, phase,
                   jwts, mw, reg, ingredients, tables>>
    /\ LET counted == "authLimiter" \in LimitersOf(path)
           st == IF counted THEN Increment(store.auth, c, AuthWindowMs) ELSE store.auth
           over == counted /\ OverLimit(st.hits[c], AuthMax)
       IN /\ resp' = IF over
                     THEN [NoResp EXCEPT !.op = "authLimiter", !.status = 429,
                                         !.body = AuthMessage, !.req = [ip |-> c]]
                     ELSE [NoResp EXCEPT !.op = "sensitive", !.status = status]
          /\ store' = [store EXCEPT
                         !.auth = IF counted /\ ~over /\ RequestWasSuccessful(status)
                                  THEN Decrement(st, c) ELSE st,
                         !.ops[c] = @ + 1]

\* Time passes by one window of the sensitive limiter
TickHour ==
    /\ now < MaxWindows * SensitiveWindowMs
    /\ now' = now + SensitiveWindowMs
    /\ Silent
    /\ store' = [store EXCEPT !.ops = [c \in Clients |-> 0]]
    /\ UNCHANGED <<users, nextId, slots, nextToken, latest, okCount, env, phase, jwts,
                   mw, reg, ingredients, tables>>

(***************************************************************************)
(* Specification of the password-reset flows, the server up                                  *)
(***************************************************************************)
Init ==
    /\ users = SeedUsers
    /\ nextId = 3
    /\ now = 0
    /\ slots = [s \in Slots |-> IdleSlot]
    /\ resp = NoResp
    /\ nextToken = 1
    /\ latest = <<>>
    /\ okCount = [t \in 1..MaxTokens |-> 0]
    /\ env = [DATABASE_URL |-> TRUE, JWT_SECRET |-> TRUE]
    /\ phase = "listening"
    /\ jwts = {}
    /\ mw = NoRun
    /\ reg = NoReg
    /\ store = NoStore
    /\ ingredients = NoIngredients
    /\ tables = SeedTables

Next ==
    \/ \E s \in Slots, e \in ForgotEmails, ok \in BOOLEAN : ForgotPasswordLookup(s, e, ok)
    \/ \E s \in Slots, ok \in BOOLEAN, sent \in BOOLEAN : ForgotPasswordUpdate(s, ok, sent)
    \/ \E s \in Slots, t \in ResetTokens, p \in ResetPasswords, ok \in BOOLEAN :
         ResetPasswordLookup(s, t, p, ok)
    \/ \E s \in Slots, ok \in BOOLEAN : ResetPasswordUpdate(s, ok)
    \/ Tick

Spec == Init /\ [][Next]_vars

(***************************************************************************)
(* Specifications of the token flows                                       *)
(***************************************************************************)
LoginNames == {<<>>, <<"B", "O", "B">>, EmailAlUpper, <<"n", "o">>}
LoginPasswords == {<<>>, PwInit, PwOther}
PatchIds == {1, 2, 3}
PatchRoles == {"user", "admin", "bartender"}

\* The server from process start: authentication of requests
InitAuth ==
    /\ users = SeedUsers
    /\ nextId = 3
    /\ now = 0
    /\ slots = [s \in Slots |-> IdleSlot]
    /\ resp = NoResp
    /\ nextToken = 1
    /\ latest = <<>>
    /\ okCount = [t \in 1..MaxTokens |-> 0]
    /\ env \in [DATABASE_URL : BOOLEAN, JWT_SECRET : BOOLEAN]
    /\ phase = "boot"
    /\ jwts = {}
    /\ mw = NoRun
    /\ reg = NoReg
    /\ store = NoStore
    /\ ingredients = NoIngredients
    /\ tables = SeedTables

NextAuth ==
    \/ \E c \in BOOLEAN : StartServer(c)
    \/ \E l \in LoginNames, p \in LoginPasswords, ok \in BOOLEAN : Login(l, p, ok)
    \/ \E h \in Headers, ok \in BOOLEAN : Me(h, ok)
    \/ TickJwt

SpecAuth == InitAuth /\ [][NextAuth]_vars

\* The server from process start: role changes and admin-only routes
NextRole ==
    \/ \E c \in BOOLEAN : StartServer(c)
    \/ \E l \in LoginNames, p \in LoginPasswords, ok \in BOOLEAN : Login(l, p, ok)
    \/ \E h \in BearerHeaders, ok \in BOOLEAN : ListUsers(h, ok)
    \/ \E h \in BearerHeaders, i \in PatchIds, r \in PatchRoles, ok \in BOOLEAN :
         PatchUserRole(h, i, r, ok)
    \/ TickJwt

SpecRole == InitAuth /\ [][NextRole]_vars

\* A token the server signed for the seed admin a week before the model's
\* epoch: it expires at time 0
ExpiredAdmin ==
    Jwt([id |-> 1, username |-> <<"b", "o", "b">>, email |-> EmailBob,
         role |-> "admin", iat |-> 0 - JwtExpiresInSec, exp |-> 0], "server-secret")

\* The server up: every route behind the admin gate, and the routes beside
\* them, asked with no token, a forged one, an expired one, and the tokens of
\* both seed users
AdminHeaders ==
    BearerHeaders \cup {Header(<<Word("Bearer"), Space, w>>) :
                           w \in {ForgedAdmin, ExpiredAdmin}}
AdminReads == {"GET /admin/stats", "GET /admin/orders/summary",
               "GET /admin/cocktails/popular"}
CocktailReads == {"GET /cocktails", "GET /cocktails/:id"}
OrderBodies == {"pending", "shaken"}
CocktailNames == {<<>>, <<"X", " ", "O", "!">>}
Optional(S) == {<<>>} \cup {<<x>> : x \in S}

NextAdmin ==
    \/ \E l \in {<<"B", "O", "B">>, EmailAlUpper} : Login(l, PwInit, TRUE)
    \/ \E h \in AdminHeaders : ListUsers(h, TRUE)
    \/ \E h \in AdminHeaders : GetUser(h, 2, TRUE)
    \/ \E h \in AdminHeaders : PatchUserRole(h, 2, "user", TRUE)
    \/ \E h \in AdminHeaders : DeleteUser(h, 3, TRUE)
    \/ \E h \in AdminHeaders : AdminResetPassword(h, 3, PwLonger, TRUE)
    \/ \E h \in AdminHeaders, r \in AdminReads : AdminRead(r, h, TRUE)
    \/ \E h \in AdminHeaders : ToggleAvailability(h, TRUE, {Mojito}, "false", TRUE)
    \/ \E h \in AdminHeaders : ListOrders(h, TRUE)
    \/ \E h \in AdminHeaders : MyOrders(h, TRUE)
    \/ \E h \in AdminHeaders : CreateOrder(h, Mojito, TRUE)
    \/ \E h \in AdminHeaders, b \in OrderBodies : PatchOrder(h, 1, b, TRUE)
    \/ \E h \in AdminHeaders : DeleteOrder(h, 1, TRUE)
    \/ \E h \in AdminHeaders : DeleteOrders(h, TRUE)
    \/ \E h \in AdminHeaders, r \in CocktailReads : ReadCocktails(r, h, TRUE)
    \/ \E h \in AdminHeaders, n \in CocktailNames :
         CreateCocktail(h, <<>>, n, TRUE, <<Gin>>, TRUE)
    \/ \E h \in AdminHeaders, a \in Optional({"true"}) :
         PatchCocktail(h, Mojito, a, <<>>, <<>>, TRUE)

SpecAdmin == Init /\ [][NextAdmin]_vars

\* The server up: administrators changing roles and deleting accounts
UserIds == {1, 2}
NextUsers ==
    \/ \E l \in {<<"B", "O", "B">>, EmailAlUpper} : Login(l, PwInit, TRUE)
    \/ \E h \in BearerHeaders, i \in UserIds, r \in {"user", "admin"}, ok \in BOOLEAN :
         PatchUserRole(h, i, r, ok)
    \/ \E h \in BearerHeaders, i \in UserIds, ok \in BOOLEAN : DeleteUser(h, i, ok)

SpecUsers == Init /\ [][NextUsers]_vars

\* The middleware functions applied to every request, with and without the
\* signing secret, before and after the expiry of the tokens at hand
InitMw ==
    /\ users = SeedUsers
    /\ nextId = 3
    /\ now \in {k * JwtTickMs : k \in 0..MaxJwtTicks}
    /\ slots = [s \in Slots |-> IdleSlot]
    /\ resp = NoResp
    /\ nextToken = 1
    /\ latest = <<>>
    /\ okCount = [t \in 1..MaxTokens |-> 0]
    /\ env \in [DATABASE_URL : {TRUE}, JWT_SECRET : BOOLEAN]
    /\ phase = "listening"
    /\ jwts = {Jwt([id |-> u, username |-> SeedUsers[u].username,
                    email |-> SeedUsers[u].email, role |-> SeedUsers[u].role,
                    iat |-> 0, exp |-> JwtExpiresInSec], "server-secret") :
                 u \in DOMAIN SeedUsers}
    /\ mw = NoRun
    /\ reg = NoReg
    /\ store = NoStore
    /\ ingredients = NoIngredients
    /\ tables = SeedTables

Identities ==
    {<<>>} \cup {<<t.claims>> : t \in jwts \cup {ForgedAdmin}}
           \cup {<<[t.claims EXCEPT !.role = "bartender"]>> : t \in jwts}

NextMw ==
    \/ \E h \in Headers : CallAuthenticateToken(h)
    \/ \E u \in Identities : CallRequireAdmin(u)
    \/ \E h \in Headers : CallOptionalAuth(h)

SpecMw == InitMw /\ [][NextMw]_vars

\* The requests a client sends to POST /auth/register; a missing field is <<>>
NameAb == <<"a", "b">>
NameAbc == <<"a", "b", "c">>
NameAbcd == <<"a", "b", "c", "d">>
EmailNew == <<"c", "@", "x", ".", "i", "o">>
EmailOther == <<"d", "-", "1", "@", "x", "-", "2", ".", "i", "o">>
MalformedEmails ==
    {<<"c", "@", "x">>,                          \* no dot after the @
     <<"c", "@", "x", ".", "i">>,                \* one letter after the dot
     <<"c", "x", ".", "i", "o">>,                \* no @
     <<"@", "x", ".", "i", "o">>,                \* nothing before the @
     <<"c", "@", ".", "i", "o">>,                \* nothing between @ and dot
     <<"c", " ", "d", "@", "x", ".", "i", "o">>, \* a space
     <<"c", "@", "x", ".", "i", "1">>,           \* a digit after the dot
     <<"c", "@", "d", "@", "x", ".", "i", "o">>} \* two @
RegUsernames == {<<>>, NameAb, NameAbc, NameAbcd, <<"B", "O", "B">>}
RegEmails == {<<>>, EmailNew, EmailOther, EmailAlUpper} \cup MalformedEmails
RegPasswords == {<<>>, PwShort, PwLonger}
BodyRoles == {"none", "admin"}

\* Registration, the server up
NextReg ==
    \/ \E s \in Slots, u \in RegUsernames, e \in RegEmails, p \in RegPasswords,
          ok \in BOOLEAN : RegisterCheck(s, u, e, p, "none", ok)
    \/ \E s \in Slots, ok \in BOOLEAN : RegisterInsert(s, ok)

SpecReg == Init /\ [][NextReg]_vars

\* Accounts and their roles, the server up: registrations (one body with and
\* without a role field, one whose username is the other's email), logins in
\* several letter cases, and PATCH /users/:id
AccountBodies ==
    {[username |-> NameAbc, email |-> EmailNew, password |-> PwLonger, role |-> r] :
        r \in BodyRoles}
    \cup {[username |-> EmailNew, email |-> EmailOther, password |-> PwOther,
           role |-> "none"]}
AccountLogins ==
    {<<"B", "O", "B">>, <<"n", "o">>, <<"A", "B", "c">>, <<"C", "@", "X", ".", "i", "o">>}
AccountPasswords == {PwInit, PwLonger}

NextAccount ==
    \/ \E s \in Slots, b \in AccountBodies, ok \in BOOLEAN :
         RegisterCheck(s, b.username, b.email, b.password, b.role, ok)
    \/ \E s \in Slots, ok \in BOOLEAN : RegisterInsert(s, ok)
    \/ \E l \in AccountLogins, p \in AccountPasswords, ok \in BOOLEAN : Login(l, p, ok)
    \/ \E h \in BearerHeaders, i \in {1, 3}, r \in {"user", "admin"}, ok \in BOOLEAN :
         PatchUserRole(h, i, r, ok)

SpecAccount == Init /\ [][NextAccount]_vars

\* Password changes, the server up
ChangeCurrent == {<<>>, PwInit, PwLonger}
ChangeNew == {<<>>, PwShort, PwOther}
ChangeHeaders == BearerHeaders \cup {Header(<<Word("Bearer"), Space, ForgedAdmin>>)}

NextChange ==
    \/ \E l \in LoginNames, p \in LoginPasswords, ok \in BOOLEAN : Login(l, p, ok)
    \/ \E s \in Slots, h \in ChangeHeaders, c \in ChangeCurrent, n \in ChangeNew,
          ok \in BOOLEAN : ChangePasswordCheck(s, h, c, n, ok)
    \/ \E s \in Slots, ok \in BOOLEAN : ChangePasswordUpdate(s, ok)

SpecChange == Init /\ [][NextChange]_vars

\* Every way to set a password, the server up: change-password, the reset by
\* e-mailed token, the reset by an administrator, and the logins between them
PasswordsTried == {PwInit, PwOther, PwLonger}

\* One account-service request is in flight at a time; logins, the
\* administrator's reset and the clock come between its steps
PasswordSlots == {1}

NextPassword ==
    \/ \E p \in {PwInit, PwOther} : Login(EmailAlUpper, p, TRUE)
    \/ \E s \in PasswordSlots : ForgotPasswordLookup(s, EmailAlUpper, TRUE)
    \/ \E s \in PasswordSlots : ForgotPasswordUpdate(s, TRUE, TRUE)
    \/ \E s \in PasswordSlots, t \in 1..MaxTokens : ResetPasswordLookup(s, t, PwLonger, TRUE)
    \/ \E s \in PasswordSlots, ok \in BOOLEAN : ResetPasswordUpdate(s, ok)
    \/ \E s \in PasswordSlots, h \in BearerHeaders, c \in {PwInit, PwOther} :
         ChangePasswordCheck(s, h, c, PwOther, TRUE)
    \/ \E s \in PasswordSlots, ok \in BOOLEAN : ChangePasswordUpdate(s, ok)
    \/ \E h \in BearerHeaders : AdminResetPassword(h, 2, PwLonger, TRUE)
    \/ Tick

\* The server up, both seed users logged in at time 0
InitPassword ==
    /\ users = SeedUsers
    /\ nextId = 3
    /\ now = 0
    /\ slots = [s \in Slots |-> IdleSlot]
    /\ resp = NoResp
    /\ nextToken = 1
    /\ latest = <<>>
    /\ okCount = [t \in 1..MaxTokens |-> 0]
    /\ env = [DATABASE_URL |-> TRUE, JWT_SECRET |-> TRUE]
    /\ phase = "listening"
    /\ jwts = {Jwt([id |-> u, username |-> SeedUsers[u].username,
                    email |-> SeedUsers[u].email, role |-> SeedUsers[u].role,
                    iat |-> 0, exp |-> JwtExpiresInSec], "server-secret") :
                 u \in DOMAIN SeedUsers}
    /\ mw = NoRun
    /\ reg = NoReg
    /\ store = NoStore
    /\ ingredients = NoIngredients
    /\ tables = SeedTables

SpecPassword == InitPassword /\ [][NextPassword]_vars

(***************************************************************************)
(* Specification of login and register behind the auth limiter             *)
(***************************************************************************)
LimitLogins == {[login |-> <<"B", "O", "B">>, password |-> PwInit],
                [login |-> <<"B", "O", "B">>, password |-> PwOther]}
LimitBodies == {[username |-> <<"B", "O", "B">>, email |-> EmailNew, password |-> PwLonger],
                [username |-> NameAbc, email |-> EmailNew, password |-> PwShort]}

NextLimit ==
    \/ \E c \in Clients : AuthLimiter(c)
    \/ \E c \in Clients, w \in Windows, l \in LimitLogins :
          AuthLogin(c, w, l.login, l.password, TRUE)
    \/ \E c \in Clients, w \in Windows, s \in Slots, b \in LimitBodies :
          AuthRegister(c, w, s, b.username, b.email, b.password, TRUE)
    \/ TickWindow

SpecLimit == Init /\ [][NextLimit]_vars

(***************************************************************************)
(* Specification of the requests outside /auth                             *)
(***************************************************************************)
ApiClients == {"10.0.0.1"}
ApiPaths == {<<"health">>, <<"cocktails">>, <<"orders">>, <<"admin">>, <<"ingredients">>,
             <<"users">>, <<"api", "cocktails">>, <<"nothing">>}

NextApi ==
    \/ \E c \in ApiClients, path \in ApiPaths : Request(c, path)
    \/ TickMinute

SpecApi == Init /\ [][NextApi]_vars

(***************************************************************************)
(* Specification of the sensitive requests                                 *)
(***************************************************************************)
HandlerStatuses == {200, 401}

NextSensitive ==
    \/ \E c \in ApiClients, path \in SensitivePaths, status \in HandlerStatuses :
          SensitiveRequest(c, path, status)
    \/ TickHour

SpecSensitive == Init /\ [][NextSensitive]_vars

(***************************************************************************)
(* Specification of the bulk update of ingredients                         *)
(***************************************************************************)
Ing(id, in_stock) == [id |-> id, in_stock |-> in_stock]
ListBoth == <<Ing(1, "false"), Ing(2, "false")>>
ListNotBoolean == <<Ing(2, "false"), Ing(1, NotBoolean)>>
ListUnknownId == <<Ing(1, "true"), Ing(3, "false")>>
BulkLists == {<<>>, ListBoth, ListNotBoolean, ListUnknownId}

NextBulk ==
    \/ \E s \in Slots, isArray \in BOOLEAN, list \in BulkLists, ok \in BOOLEAN :
          BulkStart(s, NoHeader, isArray, list, ok)
    \/ \E s \in Slots, ok \in BOOLEAN : BulkBegin(s, ok)
    \/ \E s \in Slots, ok \in BOOLEAN : BulkUpdate(s, ok)
    \/ \E s \in Slots, ok \in BOOLEAN : BulkCommit(s, ok)
    \/ \E s \in Slots, ok \in BOOLEAN : BulkSelect(s, ok)
    \/ \E s \in Slots : BulkRollback(s)
    \/ \E ok \in BOOLEAN : ListIngredients(NoHeader, ok)
    \/ \E id \in 1..2, v \in StockValues : PatchIngredient(NoHeader, id, v, TRUE)

SpecBulk == Init /\ [][NextBulk]_vars

(***************************************************************************)
(* Specification of the ingredients routes, with and without a token       *)
(***************************************************************************)
ToggleNames == {<<>>, <<"A", "B">>}
CreateNames == {<<Blank>>, <<Blank, "a", "b", Blank>>}

NextIngredients ==
    \/ \E l \in {<<"B", "O", "B">>, EmailAlUpper} : Login(l, PwInit, TRUE)
    \/ \E h \in BearerHeaders, id \in {1, 3}, v \in StockValues \cup {NotBoolean},
          ok \in BOOLEAN : PatchIngredient(h, id, v, ok)
    \/ \E h \in BearerHeaders, n \in ToggleNames, v \in StockValues :
          ToggleIngredient(h, n, v, TRUE)
    \/ \E h \in BearerHeaders, n \in CreateNames : CreateIngredient(h, n, "true", TRUE)
    \/ \E h \in BearerHeaders : BulkStart(1, h, TRUE, ListBoth, TRUE)
    \/ BulkBegin(1, TRUE)
    \/ BulkUpdate(1, TRUE)
    \/ BulkCommit(1, TRUE)
    \/ BulkSelect(1, TRUE)

SpecIngredients == Init /\ [][NextIngredients]_vars

(***************************************************************************)
(* Password-reset token lifecycle                                          *)
(***************************************************************************)
IssuedSecrets == 1..MaxTokens

\* The reset-password SELECT would accept secret t for user u now
Accepts(u, t) == u \in FindByResetToken(Sha256(t))

\* The last step answered a reset-password request at its SELECT
LookupAnswered == resp.op = "reset" /\ resp.step = "lookup"

\* C1: reset tokens are single-use.  Once reset-password has answered 200 for
\* secret T, the SELECT of every later reset-password request carrying T finds
\* no row: the request is rejected at the lookup (400, or 500 when the query
\* itself throws) and never reaches the UPDATE, so the password hash stays.
C1_SingleUse ==
    /\ \A t \in IssuedSecrets : okCount[t] > 0 => \A u \in DOMAIN users : ~Accepts(u, t)
    /\ (LookupAnswered /\ resp.token \in IssuedSecrets /\ okCount[resp.token] > 0)
          => resp.status \in {400, 500}

\* a replay of a consumed secret has just been rejected with 400
C1_Witness ==
    /\ LookupAnswered /\ resp.status = 400
    /\ resp.token \in IssuedSecrets /\ okCount[resp.token] > 0

\* C2: a secret issued at time t is accepted only while now < t + 1 hour; at or
\* after the expiry the lookup finds no row for it, the request is rejected and
\* nothing is written.
C2_Expiry ==
    /\ \A u \in DOMAIN latest :
          Accepts(u, latest[u].token) => now < latest[u].at + ResetTokenTtlMs
    /\ \A u \in DOMAIN latest :
          (/\ now >= latest[u].at + ResetTokenTtlMs
           /\ LookupAnswered /\ resp.token = latest[u].token)
             => resp.status \in {400, 500}

\* the stored secret is presented exactly at its expiry and is rejected with
\* 400, the row still holding it
C2_Witness ==
    \E u \in DOMAIN latest :
        /\ now = latest[u].at + ResetTokenTtlMs
        /\ StoredSecret(u) = latest[u].token
        /\ LookupAnswered /\ resp.token = latest[u].token /\ resp.status = 400

\* C3: each user holds at most one active reset token, the one stored last:
\* a secret that a later forgot-password overwrote is never accepted.
C3_OneActiveToken ==
    /\ \A u \in DOMAIN users : \A t \in IssuedSecrets :
          Accepts(u, t) => (u \in DOMAIN latest /\ latest[u].token = t)
    /\ \A u \in DOMAIN users :
          Cardinality({t \in IssuedSecrets : Accepts(u, t)}) <= 1

\* T2 overwrote the unexpired, unconsumed T1 of the same user; T1 has just been
\* rejected with 400 and T2 is the secret that is accepted
C3_Witness ==
    \E u \in DOMAIN latest :
        /\ latest[u].over # 0
        /\ okCount[latest[u].over] = 0
        /\ Accepts(u, latest[u].token)
        /\ LookupAnswered /\ resp.token = latest[u].over /\ resp.status = 400

\* the reset-password UPDATE has just answered
UpdateAnswered == resp.op = "reset" /\ resp.step = "update"

\* C4: reset-password stores the new hash and clears the token columns in
\* one atomic step: a reset that replaces a hash leaves the row without
\* token; a token is cleared only by a step that replaces the hash; and a
\* failed UPDATE leaves the table as it was.
C4_AtomicReset ==
    [][/\ \A u \in DOMAIN users :
            /\ (UpdateAnswered' /\ users'[u].password_hash # users[u].password_hash)
                  => (/\ users'[u].reset_token = NULL
                      /\ users'[u].reset_token_expiry = NULL)
            /\ (users[u].reset_token # NULL /\ users'[u].reset_token = NULL)
                  => users'[u].password_hash # users[u].password_hash
       /\ (UpdateAnswered' /\ resp'.status = 500) => users' = users
      ]_vars

\* after one successful reset, the UPDATE of another reset has failed: the row
\* still holds the token and the old hash
C4_Witness ==
    /\ UpdateAnswered /\ resp.status = 500
    /\ StoredSecret(2) = resp.token
    /\ \E t \in IssuedSecrets : okCount[t] > 0

\* C5: of two concurrent reset-password requests carrying the same valid
\* secret at most one is answered 200.
C5_AtMostOneSuccess == \A t \in IssuedSecrets : okCount[t] <= 1

(***************************************************************************)
(* Middleware                                                              *)
(***************************************************************************)
\* The header carries a token: it has a first space, and the character after
\* that space is neither missing nor a space
CarriesToken(h) ==
    /\ h.present
    /\ \E i \in 1..(Len(h.chars) - 1) :
          /\ h.chars[i] = Space
          /\ \A k \in 1..(i - 1) : h.chars[k] # Space
          /\ h.chars[i + 1] # Space

\* The token the header carries: the text between its first space and the
\* next space (or the end)
TokenOf(h) ==
    LET i == CHOOSE j \in 1..Len(h.chars) :
                 h.chars[j] = Space /\ \A k \in 1..(j - 1) : h.chars[k] # Space
        rest == SubSeq(h.chars, i + 1, Len(h.chars))
        n == IF \E j \in 1..Len(rest) : rest[j] = Space
             THEN (CHOOSE j \in 1..Len(rest) :
                      rest[j] = Space /\ \A k \in 1..(j - 1) : rest[k] # Space) - 1
             ELSE Len(rest)
    IN SubSeq(rest, 1, n)

\* The token is a JWT signed with the server's secret
SignedByServer(tok) ==
    Len(tok) = 1 /\ tok[1].kind = "jwt" /\ tok[1].key = "server-secret"

Expired(tok) == SignedByServer(tok) /\ now >= tok[1].claims.exp * 1000
Verifies(tok) == SignedByServer(tok) /\ now < tok[1].claims.exp * 1000

\* C6: authenticateToken answers 401 without calling next when the request has
\* no Authorization header or no token after the split; 401 'Token expired'
\* for an expired token; 403 'Invalid token' for any other token that fails
\* verification; and for a token that verifies it attaches the claims as
\* req.user and calls next.  The handler runs in the last case only.
C6_AuthenticateToken ==
    mw.out.fn = "authenticateToken" =>
        IF ~CarriesToken(mw.header)
        THEN mw.out.status = 401 /\ mw.out.next = 0 /\ ~mw.handler
        ELSE IF Expired(TokenOf(mw.header))
        THEN /\ mw.out.status = 401 /\ mw.out.error = "Token expired"
             /\ mw.out.next = 0 /\ ~mw.handler
        ELSE IF Verifies(TokenOf(mw.header))
        THEN /\ mw.out.status = 0 /\ mw.out.next = 1 /\ mw.handler
             /\ mw.out.user = <<TokenOf(mw.header)[1].claims>>
        ELSE /\ mw.out.status = 403 /\ mw.out.error = "Invalid token"
             /\ mw.out.next = 0 /\ ~mw.handler

\* a token the server issued is presented after its expiry and answered 401
\* 'Token expired'
C6_Witness ==
    /\ mw.route = "GET /auth/me"
    /\ CarriesToken(mw.header) /\ Expired(TokenOf(mw.header))
    /\ TokenOf(mw.header)[1] \in jwts
    /\ mw.out.status = 401 /\ mw.out.error = "Token expired"

\* C7: requireAdmin answers 401 when no identity is attached, 403 when the
\* attached identity's role is not 'admin', and calls next only for role
\* 'admin'; it never calls next after rejecting.
C7_RequireAdmin ==
    mw.out.fn = "requireAdmin" =>
        /\ mw.in = <<>> => (mw.out.status = 401 /\ mw.out.next = 0)
        /\ (mw.in # <<>> /\ mw.in[1].role # "admin")
              => (mw.out.status = 403 /\ mw.out.next = 0)
        /\ mw.out.next >= 1
              => (mw.in # <<>> /\ mw.in[1].role = "admin" /\ mw.out.status = 0)
        /\ (mw.in # <<>> /\ mw.in[1].role = "admin") => mw.out.next = 1
        /\ mw.handler <=> mw.out.next = 1

\* an identity whose role is not 'admin' has just been turned away with 403
C7_Witness ==
    /\ mw.route = "requireAdmin" /\ mw.out.fn = "requireAdmin"
    /\ mw.in # <<>> /\ mw.in[1].role = "bartender"
    /\ mw.out.status = 403 /\ mw.out.next = 0

\* C8: optionalAuth never rejects: whatever the request and whether or not the
\* signing secret is set, it sends no response, calls next exactly once, and
\* leaves req.user equal to the verified claims when the token verifies and
\* null otherwise.
C8_OptionalAuth ==
    mw.out.fn = "optionalAuth" =>
        /\ mw.out.status = 0
        /\ mw.out.next = 1
        /\ mw.out.user =
              IF /\ env.JWT_SECRET
                 /\ CarriesToken(mw.header)
                 /\ Verifies(TokenOf(mw.header))
              THEN <<TokenOf(mw.header)[1].claims>>
              ELSE <<>>

\* an expired token went through optionalAuth: no response, next called,
\* req.user null
C8_Witness ==
    /\ mw.out.fn = "optionalAuth"
    /\ CarriesToken(mw.header) /\ Expired(TokenOf(mw.header))
    /\ mw.out.next = 1 /\ mw.out.user = <<>>

\* a valid token went through optionalAuth while the signing secret is missing
C8_WitnessNoSecret ==
    /\ mw.out.fn = "optionalAuth"
    /\ ~env.JWT_SECRET
    /\ CarriesToken(mw.header) /\ Verifies(TokenOf(mw.header))
    /\ mw.out.next = 1 /\ mw.out.user = <<>>

(***************************************************************************)
(* Stale roles                                                             *)
(***************************************************************************)
BearerOf(t) == Header(<<Word("Bearer"), Space, t>>)

\* C9: authorisation uses the role carried in the token, not the stored one.
\* Every token the server issued is, until it expires, accepted by
\* authenticateToken and passes requireAdmin exactly when the role in the
\* token is 'admin', whatever role the users table now holds; and a token
\* carries the role stored when it was issued.
C9_InvStaleRole ==
    \A t \in jwts :
        now < t.claims.exp * 1000 =>
            LET chain == AdminChain("GET /users", BearerOf(t))
            IN /\ chain.out.fn = "requireAdmin"
               /\ chain.in = <<t.claims>>
               /\ chain.handler <=> t.claims.role = "admin"

C9_StaleRole ==
    /\ []C9_InvStaleRole
    /\ [][\A t \in jwts' \ jwts :
             t.claims.id \in DOMAIN users /\ t.claims.role = users[t.claims.id].role
         ]_vars

\* Bob has been demoted in the users table, and the token issued to him before
\* still opened an admin-only route
C9_Witness ==
    /\ mw.route = "GET /users" /\ mw.handler
    /\ mw.in # <<>> /\ mw.in[1].role = "admin"
    /\ mw.in[1].id \in DOMAIN users
    /\ users[mw.in[1].id].role = "user"

(***************************************************************************)
(* Registration                                                            *)
(***************************************************************************)
\* The request the last step answered fails validation: a field is missing,
\* the username has fewer than 3 characters, the password fewer than 8, or the
\* email is one of the malformed addresses
FailsValidation(r) ==
    \/ r.username = <<>> \/ r.email = <<>> \/ r.password = <<>>
    \/ Len(r.username) \in {1, 2}
    \/ Len(r.password) \in 1..7
    \/ r.email \in MalformedEmails

\* The request sits on the boundary: 3 characters, 8 characters, a well-formed
\* email
OnBoundary(r) ==
    /\ Len(r.username) = 3 /\ Len(r.password) = 8
    /\ r.email \in {EmailNew, EmailOther, EmailAlUpper}

\* No user has the username or the email, ignoring letter case
NoConflict(r) ==
    \A u \in DOMAIN users :
        /\ Lower(users[u].username) # Lower(r.username)
        /\ Lower(users[u].email) # Lower(r.email)

\* C10: POST /auth/register answers 400 and creates no user when the username
\* has fewer than 3 characters, the password fewer than 8, the email does not
\* match the pattern, or a field is missing; a username of exactly 3
\* characters with a password of exactly 8, a valid email and no conflict is
\* answered 201 and exactly one user is created (unless a query throws, which
\* is answered 500).
C10_RegisterValidation ==
    [][LET r == reg'.last IN
       r.status # 0 =>
          /\ FailsValidation(r) => (r.status = 400 /\ users' = users)
          /\ (OnBoundary(r) /\ NoConflict(r) /\ ~r.threw) =>
                /\ r.status = 201
                /\ DOMAIN users' = DOMAIN users \cup {nextId}
                /\ nextId \notin DOMAIN users
                /\ \A u \in DOMAIN users : users'[u] = users[u]
                /\ users'[nextId].username = r.username
                /\ users'[nextId].email = r.email
                /\ users'[nextId].role = "user"
          /\ r.status = 201 => Cardinality(DOMAIN users') = Cardinality(DOMAIN users) + 1
          /\ r.status # 201 => users' = users
      ]_vars

\* username 'abc' with an 8-character password has just been registered
C10_Witness ==
    /\ reg.last.status = 201
    /\ reg.last.username = NameAbc /\ reg.last.password = PwLonger
    /\ reg.last.email = EmailNew
    /\ \E u \in DOMAIN users : u >= 3 /\ users[u].username = NameAbc

\* username 'ab' has just been refused
C10_WitnessShort ==
    /\ reg.last.status = 400
    /\ reg.last.username = NameAb /\ reg.last.password = PwLonger
    /\ reg.last.email = EmailNew

\* The request passes the field validation of POST /auth/register
PassesValidation(r) ==
    /\ Len(r.username) >= 3 /\ Len(r.password) >= 8
    /\ r.email \in {EmailNew, EmailOther, EmailAlUpper}

\* The step is the end of a request that had reached its INSERT
InsertAnswered == \E s \in Slots : reg.slots[s].pc = "insert" /\ reg'.slots[s].pc = "idle"

\* The step is a request's existence check letting the request through
CheckPassed(s) == reg.slots[s].pc = "idle" /\ reg'.slots[s].pc = "insert"

\* No two user records share a username or an email, ignoring letter case
UsersUnique ==
    \A u, v \in DOMAIN users :
        u # v => /\ Lower(users[u].username) # Lower(users[v].username)
                 /\ Lower(users[u].email) # Lower(users[v].email)

\* C11: a registration (with valid fields) whose username or email equals,
\* ignoring letter case, that of an existing user is answered 409 at the
\* existence check and the users table is unchanged; no two user records ever
\* share a username or an email ignoring case.
C11_RegisterConflict ==
    /\ []UsersUnique
    /\ [][/\ \A s \in Slots : CheckPassed(s) => NoConflict(reg'.slots[s])
          /\ LET r == reg'.last IN
             (r.status # 0 /\ ~InsertAnswered /\ PassesValidation(r)
                 /\ ~NoConflict(r) /\ ~r.threw)
                => (r.status = 409 /\ users' = users)
         ]_vars

\* 'BOB' with a fresh email has just been refused with 409 because of 'bob'
C11_Witness ==
    /\ reg.last.status = 409
    /\ reg.last.username = <<"B", "O", "B">> /\ reg.last.email = EmailNew
    /\ reg.last.password = PwLonger

\* C12: when two concurrent registrations for the same username or email both
\* pass the existence check, the one whose INSERT the unique constraint rejects
\* is answered 409, not 500.
C12_RaceIsConflict ==
    [][(InsertAnswered /\ ~NoConflict(reg'.last)) => reg'.last.status = 409]_vars

(***************************************************************************)
(* Roles                                                                   *)
(***************************************************************************)
\* C13: every user record POST /auth/register creates has role 'user' whatever
\* the request body holds; the 201 response carries only id, username, email,
\* role and the token; and a stored role becomes 'admin' only in a PATCH
\* /users/:id whose request passed requireAdmin with an admin identity.
C13_RoleAssignment ==
    [][/\ \A u \in DOMAIN users' \ DOMAIN users : users'[u].role = "user"
       /\ reg'.last.status = 201 =>
             /\ DOMAIN reg'.last.body = {"user", "token"}
             /\ DOMAIN reg'.last.body.user = {"id", "username", "email", "role"}
             /\ reg'.last.body.user.role = "user"
             /\ DOMAIN reg'.last.body.token.claims
                   = {"id", "username", "email", "role", "iat", "exp"}
       /\ \A u \in DOMAIN users \cap DOMAIN users' :
             (users[u].role # "admin" /\ users'[u].role = "admin") =>
                /\ mw'.route = "PATCH /users/:id"
                /\ mw'.handler
                /\ mw'.in # <<>> /\ mw'.in[1].role = "admin"
      ]_vars

\* a registration whose body asked for role 'admin' has been answered 201 and
\* the record created has role 'user'
C13_Witness ==
    /\ reg.last.status = 201 /\ reg.last.role = "admin"
    /\ reg.last.body.user.id \in DOMAIN users
    /\ users[reg.last.body.user.id].role = "user"

\* the registered user has been promoted by an admin's PATCH
C13_WitnessPromoted ==
    /\ mw.route = "PATCH /users/:id" /\ mw.handler
    /\ 3 \in DOMAIN users /\ users[3].role = "admin"

(***************************************************************************)
(* Login                                                                   *)
(***************************************************************************)
\* The identifier matches no user, ignoring letter case
MatchesNoUser(login) ==
    \A u \in DOMAIN users :
        /\ Lower(users[u].username) # Lower(login)
        /\ Lower(users[u].email) # Lower(login)

\* The identifier matches a user, and the password is not that user's
MatchesUserWithOtherPassword(login, password) ==
    /\ ~MatchesNoUser(login)
    /\ \A u \in DOMAIN users :
          (Lower(users[u].username) = Lower(login) \/ Lower(users[u].email) = Lower(login))
             => users[u].password_hash.pw # password

\* C14: login does not reveal whether an account exists: with the same
\* password, an identifier that matches no user and one that matches a user
\* with another password get the same status 401 and the same body, and no
\* token is issued for either.
C14_LoginAntiEnumeration ==
    \A p \in AccountPasswords, l1, l2 \in AccountLogins :
        (MatchesNoUser(l1) /\ MatchesUserWithOtherPassword(l2, p)) =>
            /\ LoginAnswers(l1, p, TRUE) = LoginAnswers(l2, p, TRUE)
            /\ \A a \in LoginAnswers(l1, p, TRUE) \cup LoginAnswers(l2, p, TRUE) :
                  a.status = 401 /\ a.issued = {}

\* 'abc' has registered, and a login has just been answered 401 while some
\* identifier matches no user and another matches a user with another password
C14_Witness ==
    /\ resp.op = "login" /\ resp.status = 401
    /\ resp.body = [error |-> "Identifiant ou mot de passe incorrect"]
    /\ 3 \in DOMAIN users
    /\ \E l1 \in AccountLogins : MatchesNoUser(l1)
    /\ MatchesUserWithOtherPassword(<<"A", "B", "c">>, PwInit)

\* The users that registered with username U, email E and password P
Registered(U, E, P) ==
    {u \in DOMAIN users :
        users[u].username = U /\ users[u].email = E /\ users[u].password_hash.pw = P}

\* The answer is 200 with a token whose verified claims are those of user u
LogsInAs(a, u) ==
    /\ a.status = 200
    /\ a.issued # {}
    /\ \A t \in a.issued :
          /\ t.kind = "jwt" /\ t.key = "server-secret" /\ now < t.claims.exp * 1000
          /\ t.claims.id = users[u].id
          /\ t.claims.username = users[u].username
          /\ t.claims.email = users[u].email
          /\ t.claims.role = users[u].role

\* C15: after a user has registered with username U, email E and password P,
\* a login with U or E in any letter case and password P is answered 200 with
\* a token whose verified claims id, username, email and role are those of
\* the stored user.
C15_LoginAfterRegister ==
    \A b \in AccountBodies : \A u \in Registered(b.username, b.email, b.password) :
        \A l \in AccountLogins :
            (Lower(l) = Lower(b.username) \/ Lower(l) = Lower(b.email)) =>
                \A a \in LoginAnswers(l, b.password, TRUE) : LogsInAs(a, u)

(***************************************************************************)
(* Change of password                                                      *)
(***************************************************************************)
\* The change-password handler has just answered
ChangeAnswered == resp'.op = "change" /\ resp'.status # 0

\* The user of the token the request carried
TokenUser == mw'.out.user[1].id

\* The submitted current password is not the one stored for user u
CurrentPasswordWrong(u) == users[u].password_hash.pw # resp'.req.currentPassword

\* C16: change-password runs only for a request that passed authenticateToken;
\* if currentPassword does not verify against the stored hash of the token's
\* user (both fields being present) the answer is 401 and the stored hash is
\* unchanged (500 if a query throws); the hash is replaced only when the
\* current password verifies and the new password has at least 8 characters.
C16_ChangePassword ==
    [][/\ (ChangeAnswered /\ resp'.step = "check") =>
             /\ mw'.out.fn = "authenticateToken" /\ mw'.out.next = 1
             /\ (TokenUser \in DOMAIN users /\ CurrentPasswordWrong(TokenUser)
                   /\ resp'.req.currentPassword # <<>> /\ resp'.req.newPassword # <<>>
                   /\ resp'.status # 500)
                  => (resp'.status = 401 /\ users' = users)
       /\ \A u \in DOMAIN users :
             users'[u].password_hash # users[u].password_hash =>
                /\ resp'.op = "change" /\ resp'.status = 200
                /\ Len(resp'.req.newPassword) >= 8
                /\ users'[u].password_hash.pw = resp'.req.newPassword
      ]_vars

(***************************************************************************)
(* Forgotten password                                                      *)
(***************************************************************************)
\* C17: forgot-password with a non-empty email answers with the same status
\* and the same generic message whether or not a user with that email exists,
\* also when storing the token or sending the email fails: every answer is
\* the one a request for an unknown email gets (200 with the generic message;
\* the catch block's 500 only when the SELECT itself throws).
C17_ForgotAntiEnumeration ==
    (resp.op = "forgot" /\ resp.req.email # <<>>
       /\ ~(resp.step = "lookup" /\ resp.status = 500))
      => (resp.status = 200 /\ resp.body = GenericMessage)

(***************************************************************************)
(* The auth rate limit                                                     *)
(***************************************************************************)
\* Failed attempts of client c in its current window
FailedInWindow(c) == IF WindowOver(store.auth, c) THEN 0 ELSE store.failed[c]

\* Hits the store holds for client c in its current window
HitsInWindow(c) == IF WindowOver(store.auth, c) THEN 0 ELSE store.auth.hits[c]

\* The step is the limiter's 429 answer to client c, no handler run for it
Rejected(c) ==
    /\ resp'.op = "authLimiter" /\ resp'.status = 429 /\ resp'.body = AuthMessage
    /\ resp'.req.ip = c
    /\ store'.passed[c].cur = 0 \/ store'.passed[c] = store.passed[c]
    /\ UNCHANGED <<users, jwts, reg, ingredients, tables>>

\* C18: after 5 failed login or register attempts of one client in a window
\* its next request is answered 429 with the rate-limit body and no handler
\* runs; what the store holds for the other client addresses is untouched,
\* and a client below the limit is let through whatever the others did.
C18_AuthLimit ==
    [][\A c \in Clients :
          AuthLimiter(c) =>
             /\ FailedInWindow(c) >= AuthMax => Rejected(c)
             /\ HitsInWindow(c) < AuthMax => resp'.status # 429
             /\ \A d \in Clients \ {c} :
                   /\ store'.auth.hits[d] = store.auth.hits[d]
                   /\ store'.auth.resetTime[d] = store.auth.resetTime[d]
                   /\ store'.passed[d] = store.passed[d]
                   /\ store'.failed[d] = store.failed[d]]_vars

\* C19: in the auth limiter successful requests neither count against the
\* limit nor reset it: a request of a client is answered 429 exactly when the
\* client's failed attempts in the window have reached 5, and until the
\* window ends the store holds a hit for every failed attempt of the window.
C19_InvFailedCounted ==
    \A c \in Clients : HitsInWindow(c) >= FailedInWindow(c)

C19_SuccessNotCounted ==
    /\ []C19_InvFailedCounted
    /\ [][\A c \in Clients :
             AuthLimiter(c) => (resp'.status = 429 <=> FailedInWindow(c) >= AuthMax)]_vars

(***************************************************************************)
(* The general rate limit                                                  *)
(***************************************************************************)
\* C20: the general policy (1 minute, 100 requests per client) covers the
\* endpoints other than auth: a request of a client to /cocktails, /orders,
\* /admin, /ingredients or /users that follows 100 requests of that client in
\* the same minute is answered 429 with the rate-limit body.
C20_GeneralLimit ==
    [][\A c \in ApiClients, path \in ApiPaths :
          (Request(c, path) /\ path[1] \in Routers /\ store.calls[c] >= ApiMax)
             => (resp'.status = 429 /\ resp'.body = ApiMessage)]_vars

(***************************************************************************)
(* The sensitive rate limit                                                *)
(***************************************************************************)
\* C21: the sensitive policy (1 hour, 10 requests per client) covers password
\* change and the destructive admin operations: a request of a client to
\* POST /auth/change-password, DELETE /users/:id or DELETE /orders that
\* follows 10 such requests of that client in the same hour is answered 429.
C21_SensitiveLimit ==
    [][\A c \in ApiClients, path \in SensitivePaths, status \in HandlerStatuses :
          (SensitiveRequest(c, path, status) /\ store.ops[c] >= SensitiveMax)
             => resp'.status = 429]_vars

(***************************************************************************)
(* The bulk update of ingredients                                          *)
(***************************************************************************)
\* The listed updates applied one after the other
RECURSIVE ApplyList(_, _)
ApplyList(rows, list) ==
    IF list = <<>> THEN rows
    ELSE ApplyList([k \in DOMAIN rows |->
                      IF k = Head(list).id
                      THEN [rows[k] EXCEPT !.in_stock = Head(list).in_stock]
                      ELSE rows[k]],
                   Tail(list))

\* The step is one of the bulk update in slot s
BulkStep(s) == ingredients'.bulk[s] # ingredients.bulk[s]

\* The step is the successful COMMIT of the bulk update in slot s
Commits(s) ==
    /\ ingredients.bulk[s].pc = "update"
    /\ ingredients'.bulk[s].pc = "select"

\* C22: POST /ingredients/bulk-update applies its list as a unit: the table
\* other requests read changes in no step of the request but its COMMIT, which
\* applies every listed update; a request one of whose statements up to the
\* COMMIT failed is answered 500 and has changed no in_stock.
C22_BulkAtomic ==
    /\ [][\A s \in Slots :
            BulkStep(s) =>
               IF Commits(s)
               THEN ingredients'.rows = ApplyList(ingredients.rows, ingredients.bulk[s].list)
               ELSE ingredients'.rows = ingredients.rows]_vars
    /\ [](ingredients.last.failed \in {"begin", "update", "commit"}
            => ingredients.last.status = 500 /\ ~ingredients.last.changed)

\* C22 witness: a bulk update whose second UPDATE failed after its first had
\* run was rolled back, while the other bulk update had written a row
C22_Witness ==
    /\ ingredients.last.op = "bulk-update"
    /\ ingredients.last.status = 500
    /\ ingredients.last.failed = "update"
    /\ ingredients.last.list = ListNotBoolean
    /\ \E s \in Slots : ingredients.bulk[s].writes # <<>>

\* C22 witness: a bulk update of both rows committed and answered 200
C22_WitnessCommitted ==
    /\ ingredients.last.op = "bulk-update"
    /\ ingredients.last.status = 200
    /\ ingredients.last.list = ListBoth
    /\ ingredients.last.changed

\* C29: a bulk update answered 500 has changed no in_stock, also when the
\* statement that failed is the SELECT after COMMIT, and every path releases
\* the pooled client it acquired exactly once.
C29_BulkFailureUnchanged ==
    /\ ingredients.last.op = "bulk-update" /\ ingredients.last.status = 500
         => ~ingredients.last.changed
    /\ ingredients.last.op = "bulk-update"
         => ingredients.last.released = ingredients.last.acquired

(***************************************************************************)
(* Admin-only routes                                                       *)
(***************************************************************************)
\* The request carries a token that verifies and has the role 'admin'
AdminRequest(h) ==
    /\ CarriesToken(h)
    /\ Verifies(TokenOf(h))
    /\ TokenOf(h)[1].claims.role = "admin"

\* C24: the ingredient table changes (POST /ingredients, PATCH
\* /ingredients/:id, toggle, bulk-update) only through a request that carries
\* a valid token with role 'admin'; a request with no token or with the token
\* of a non-admin never changes it.
C24_IngredientsAdminOnly ==
    [][ingredients'.rows # ingredients.rows =>
          IF \E s \in Slots : Commits(s)
          THEN \A s \in Slots : Commits(s) => AdminRequest(ingredients.bulk[s].header)
          ELSE AdminRequest(mw'.header)]_vars

(***************************************************************************)
(* Start-up                                                                *)
(***************************************************************************)
\* C23: the server refuses to start without the signing secret: when
\* JWT_SECRET or DATABASE_URL is absent or the database connection test fails
\* the process exits and never listens; listening begins only after all three
\* checks have passed, and no request is answered before.
C23_RefusesToStart ==
    /\ [](phase = "listening" => env.DATABASE_URL /\ env.JWT_SECRET)
    /\ [][/\ \A c \in BOOLEAN :
               StartServer(c) =>
                  /\ phase' = "listening" <=> (env.DATABASE_URL /\ env.JWT_SECRET /\ c)
                  /\ phase' # "listening" => phase' = "exited"
          /\ phase = "exited" => phase' = "exited"
          /\ phase' = "listening" /\ phase # "listening"
                => \E c \in BOOLEAN : StartServer(c)
          /\ phase # "listening" => resp' = NoResp /\ UNCHANGED <<users, jwts>>]_vars

\* C23 witness: the process has exited although the database URL is set,
\* because the signing secret is absent
C23_Witness ==
    phase = "exited" /\ env.DATABASE_URL /\ ~env.JWT_SECRET

\* The routes whose handler is for administrators only
AdminOnlyRoutes ==
    {"GET /users", "GET /users/:id", "PATCH /users/:id", "DELETE /users/:id",
     "POST /users/:id/reset-password", "POST /admin/cocktails/toggle-availability",
     "GET /orders", "PATCH /orders/:id", "DELETE /orders/:id", "DELETE /orders",
     "POST /cocktails", "PATCH /cocktails/:id"} \cup AdminReads

C25_WitnessAdmin ==
    /\ mw.route = "DELETE /orders"
    /\ AdminRequest(mw.header)
    /\ mw.handler /\ resp.status = 200
    /\ tables.orders = <<>>

(***************************************************************************)
(* The last administrator                                                  *)
(***************************************************************************)
Admins == {u \in DOMAIN users : users[u].role = "admin"}

\* C26: from a state with at least one user of role 'admin', no sequence of
\* PATCH /users/:id and DELETE /users/:id requests reaches a state with no
\* admin user.
C26_AdminRemains == Admins # {}

(***************************************************************************)
(* Login identifiers                                                       *)
(***************************************************************************)
\* The identifiers the stored accounts log in with
LoginIdentifiers ==
    {users[u].username : u \in DOMAIN users} \cup {users[u].email : u \in DOMAIN users}

\* C27: in every users table reachable through POST /auth/register, a login
\* identifier matches at most one row under the login lookup (username or
\* email, ignoring case).
C27_UniqueIdentifier ==
    \A l \in LoginIdentifiers : Cardinality(FindByLogin(l)) <= 1

(***************************************************************************)
(* Passwords and reset tokens                                              *)
(***************************************************************************)
\* The step is the 200 answer of POST /auth/change-password
ChangeSucceeded == resp'.op = "change" /\ resp'.step = "update" /\ resp'.status = 200

\* The step is the 200 answer of POST /users/:id/reset-password
AdminResetSucceeded == resp'.op = "adminreset" /\ resp'.status = 200

\* The step is the 200 answer of POST /auth/reset-password
ResetSucceeded == resp'.op = "reset" /\ resp'.step = "update" /\ resp'.status = 200

\* The rows whose password hash the step replaced
Rehashed == {u \in DOMAIN users : users'[u].password_hash # users[u].password_hash}

\* C28: a successful POST /auth/change-password and a successful admin POST
\* /users/:id/reset-password change the password hash of one user and nothing
\* else: reset_token and reset_token_expiry of every row are as before, so
\* every reset token that reset-password would accept before the step it
\* accepts after it.
C28_KeepsResetToken ==
    [][(ChangeSucceeded \/ AdminResetSucceeded) =>
          /\ DOMAIN users' = DOMAIN users
          /\ Cardinality(Rehashed) = 1
          /\ \A u \in DOMAIN users :
                /\ users'[u].reset_token = users[u].reset_token
                /\ users'[u].reset_token_expiry = users[u].reset_token_expiry
                /\ [users'[u] EXCEPT !.password_hash = users[u].password_hash] = users[u]
          /\ \A t \in 1..MaxTokens :
                FindByResetToken(Sha256(t))' = FindByResetToken(Sha256(t))]_vars

\* Some row holds a reset token that reset-password accepts now
LiveResetToken ==
    \E u \in DOMAIN users :
        /\ users[u].reset_token # NULL
        /\ FindByResetToken(users[u].reset_token[1]) = {u}

\* C28 witness: change-password has just answered 200 to a user whose reset
\* token, issued before, is still accepted
C28_Witness ==
    /\ resp.op = "change" /\ resp.step = "update" /\ resp.status = 200
    /\ LiveResetToken

\* C28: the same after the 200 of the administrator's reset
C28_WitnessAdmin ==
    /\ resp.op = "adminreset" /\ resp.status = 200
    /\ LiveResetToken

\* The statuses POST /auth/login can answer to user u's username or email
\* with password p
LoginStatuses(u, p) ==
    {a.status : a \in LoginAnswers(users[u].username, p, TRUE)}
    \cup {a.status : a \in LoginAnswers(users[u].email, p, TRUE)}

AllPasswords == PasswordsTried

\* The new password of the request the step answered
RequestedPassword ==
    IF resp'.op = "reset"
    THEN CHOOSE p \in AllPasswords :
             \E s \in Slots : /\ slots[s].op = "reset" /\ slots[s].pc = "update"
                              /\ slots'[s].pc = "idle" /\ slots[s].password = p
    ELSE resp'.req.newPassword

\* The password whose hash row u holds
StoredPassword(u) == users[u].password_hash.pw

C30_WitnessRefused ==
    /\ resp.op = "login" /\ resp.status = 401
    /\ users[2].password_hash.pw = PwLonger
    /\ users[2].reset_token = NULL /\ okCount[1] = 1
====
